---------------------------- MODULE Spec2Model ----------------------------
(***************************************************************************)
(* Verification model of the ingestion / normalization / merge core of     *)
(* the repository:                                                         *)
(*   src/src/import_reddit_data.py   stream_zst_ndjson, normalize_record   *)
(*                                   process_file, find_input_file, main   *)
(*   src/src/data_prep.py            merge_and_deduplicate,                *)
(*                                   parse_hashtags_column,                *)
(*                                   load_twitter_data                     *)
(*   src/src/data_preparation/prepare_data.py   DataPreparator.clean_text  *)
(*                                                                         *)
(* The specifications of the module, one per component:                    *)
(*   SpecStream     the line generator stream_zst_ndjson                   *)
(*   SpecMerge      merge_and_deduplicate on two DataFrames                *)
(*   SpecNormalize  normalize_record on one raw event                      *)
(*   SpecFile       process_file on the lines of one file                  *)
(*   SpecFind       find_input_file on one directory                       *)
(*   SpecMain       main and the process_subreddit calls of its loop       *)
(*   SpecHashtags   save_merged_data's cell and parse_hashtags_column      *)
(*   SpecLoad       load_twitter_data on the DataFrame read from a file    *)
(*   SpecClean      DataPreparator.clean_text on one text                  *)
(* Each specification leaves the variables of the other components at      *)
(* their idle values.                                                      *)
(*                                                                         *)
(* Text is modelled as a sequence: of code points in the stream component  *)
(* (where bytes are decoded), of lexical atoms (short literal fragments    *)
(* such as "http", "t3_", "a", " ") in the other two.                      *)
(***************************************************************************)
EXTENDS Integers, Sequences, FiniteSets, TLC

VARIABLES
    \* ---- stream_zst_ndjson ----
    content,        \* the (decompressed) bytes of the file
    compressed,     \* header.startswith(magic)
    chunk_size,     \* argument chunk_size
    spc,            \* position of the generator body
    pos,            \* bytes consumed from the reader
    buffer,         \* local `buffer`
    lines,          \* local `lines` of the chunk being emitted
    line_idx,       \* index of the next element of lines[:-1]
    yielded,        \* the lines the generator has yielded so far
    seekable,       \* whether fh.seek(0) succeeds on the file behind `path`
    started,        \* whether the consumer has asked for a line yet
    pulling,        \* a next() of the consumer is waiting for its line
    stopped,        \* the consumer has given the generator up
    \* ---- merge_and_deduplicate ----
    biden_df,       \* argument biden_df
    trump_df,       \* argument trump_df
    mpc,            \* position in merge_and_deduplicate
    merged_df,      \* local `merged_df`
    original_count, \* local `original_count`
    id_col,         \* local `id_col`
    text_col,       \* local `text_col`
    duplicates_removed, \* local `duplicates_removed`
    text_duplicates,    \* local `text_duplicates`
    \* ---- normalize_record ----
    obj,            \* argument obj
    is_submission,  \* argument is_submission
    npc,            \* position in normalize_record
    created,        \* local `created`
    result,         \* what the call produced
    \* ---- process_file ----
    pf_file,        \* the file behind `path`: its lines and whether it opens
    pf_is_submission, \* argument is_submission
    pf_pc,          \* position in the generator process_file
    pf_idx,         \* lines of the stream consumed so far
    pf_out,         \* the records the generator has yielded so far
    open_handles,   \* the input file handles that are open
    \* ---- find_input_file ----
    find_base_dir,  \* the entries of base_dir, in the order iterdir() gives them
    find_subreddit, \* argument subreddit
    find_kind,      \* argument kind
    find_pc,        \* position in find_input_file
    find_result,    \* the path returned, or the FileNotFoundError
    \* ---- main / process_subreddit ----
    base_dir,       \* the entries of args.base_dir
    subreddits,     \* args.subreddits
    main_pc,        \* position in main and in the process_subreddit it calls
    sub_idx,        \* sources of the list the loop of main is done with
    submissions_file, \* local `submissions_file` of process_subreddit
    comments_file,  \* local `comments_file` of process_subreddit
    records,        \* local `records` of process_subreddit
    outputs,        \* local `outputs` of main
    written,        \* the CSV files written, in the order of the writes
    output_dir,     \* the files of args.output_dir: path |-> rows of the CSV
    log,            \* the error and completion messages logged
    \* ---- save_merged_data / parse_hashtags_column ----
    saved_list,     \* the list `x` of a cell that save_merged_data serializes
    hashtags_value, \* argument hashtags_value
    empty_is_error, \* whether this NumPy raises on the truth value of an empty array
    tag_pc,         \* position in parse_hashtags_column
    tag_result,     \* what the call produced
    \* ---- load_twitter_data ----
    load_file,      \* the DataFrame that read_csv returned
    load_label,     \* argument label
    load_pc,        \* position in load_twitter_data
    load_text_col,  \* local `text_col`
    existing_hashtag_col, \* local `existing_hashtag_col`
    load_df,        \* local `df`
    \* ---- DataPreparator.clean_text ----
    raw_text,       \* argument text
    cleaned,        \* local `text` after the steps done so far
    clean_pc        \* position in clean_text

streamVars == <<content, compressed, chunk_size, spc, pos, buffer, lines, line_idx, yielded, seekable, started, pulling, stopped>>

mergeVars == <<biden_df, trump_df, mpc, merged_df, original_count, id_col, text_col, duplicates_removed, text_duplicates>>

normVars == <<obj, is_submission, npc, created, result>>

fileVars == <<pf_file, pf_is_submission, pf_pc, pf_idx, pf_out, open_handles>>

findVars == <<find_base_dir, find_subreddit, find_kind, find_pc, find_result>>

mainVars == <<base_dir, subreddits, main_pc, sub_idx, submissions_file, comments_file, records, outputs, written, output_dir, log>>

tagVars == <<saved_list, hashtags_value, empty_is_error, tag_pc, tag_result>>

loadVars == <<load_file, load_label, load_pc, load_text_col, existing_hashtag_col, load_df>>

cleanVars == <<raw_text, cleaned, clean_pc>>

vars == <<streamVars, mergeVars, normVars, fileVars, findVars, mainVars, tagVars, loadVars, cleanVars>>

\* What the actions of one component leave alone.
notStreamVars == <<mergeVars, normVars, fileVars, findVars, mainVars, tagVars, loadVars, cleanVars>>

notMergeVars == <<streamVars, normVars, fileVars, findVars, mainVars, tagVars, loadVars, cleanVars>>

notNormVars == <<streamVars, mergeVars, fileVars, findVars, mainVars, tagVars, loadVars, cleanVars>>

notFileVars == <<streamVars, mergeVars, normVars, findVars, mainVars, tagVars, loadVars, cleanVars>>

notFindVars == <<streamVars, mergeVars, normVars, fileVars, mainVars, tagVars, loadVars, cleanVars>>

notMainVars == <<streamVars, mergeVars, normVars, findVars, tagVars, loadVars, cleanVars>>

notTagVars == <<streamVars, mergeVars, normVars, fileVars, findVars, mainVars, loadVars, cleanVars>>

notLoadVars == <<streamVars, mergeVars, normVars, fileVars, findVars, mainVars, tagVars, cleanVars>>

notCleanVars == <<streamVars, mergeVars, normVars, fileVars, findVars, mainVars, tagVars, loadVars>>

\* Python's None, for locals that hold a name or nothing.
None == "None"

(***************************************************************************)
(* Generic sequence helpers.                                               *)
(***************************************************************************)
Min(a, b) == IF a <= b THEN a ELSE b

SeqsUpTo(S, n) == UNION {[1..k -> S] : k \in 0..n}

\* str.split(sep) for a one-element separator: always at least one field.
RECURSIVE SplitOn(_, _)
SplitOn(s, sep) ==
    IF \A i \in 1..Len(s) : s[i] # sep
    THEN <<s>>
    ELSE LET k == CHOOSE i \in 1..Len(s) : s[i] = sep /\ \A j \in 1..(i-1) : s[j] # sep
         IN  <<SubSeq(s, 1, k-1)>> \o SplitOn(SubSeq(s, k+1, Len(s)), sep)

(***************************************************************************)
(* stream_zst_ndjson (compressed and plain mode).                          *)
(***************************************************************************)
\* Bounds of the stream component.
MaxBytes == 4

MaxChunk == 3

\* Byte values the file content is drawn from: 'a', '\n', ' ', and the two
\* bytes 0xC3 0xA9 of the UTF-8 encoding of U+00E9.
StreamBytes == {97, 10, 32, 195, 169}

\* U+FFFD, the replacement character of errors="replace".
REPLACEMENT == 65533

NEWLINE == 10

\* bytes.decode("utf-8", errors="replace") on 1- and 2-byte sequences: an
\* ASCII byte is itself, a lead byte 0xC2..0xDF followed by a continuation
\* byte 0x80..0xBF is one code point, and every other byte (a lone
\* continuation byte, a lead byte that is not followed by a continuation
\* byte, also at the end of the input) becomes U+FFFD.
RECURSIVE Utf8DecodeReplace(_)
Utf8DecodeReplace(bs) ==
    IF bs = <<>> THEN <<>>
    ELSE IF bs[1] < 128 THEN <<bs[1]>> \o Utf8DecodeReplace(Tail(bs))
    ELSE IF bs[1] \in 194..223 /\ Len(bs) >= 2 /\ bs[2] \in 128..191
         THEN <<(bs[1] - 192) * 64 + (bs[2] - 128)>> \o Utf8DecodeReplace(SubSeq(bs, 3, Len(bs)))
    ELSE <<REPLACEMENT>> \o Utf8DecodeReplace(Tail(bs))

\* Code points str.strip() removes (the ASCII ones and U+0085, U+00A0).
Whitespace == {9, 10, 11, 12, 13, 28, 29, 30, 31, 32, 133, 160}

\* str.strip()
RECURSIVE StripCodePoints(_)
StripCodePoints(s) ==
    IF s = <<>> THEN s
    ELSE IF s[1] \in Whitespace THEN StripCodePoints(Tail(s))
    ELSE IF s[Len(s)] \in Whitespace THEN StripCodePoints(SubSeq(s, 1, Len(s) - 1))
    ELSE s

\* reader.read(chunk_size): the next chunk_size bytes, fewer at the end,
\* empty at end of stream.
ReadChunk(bytes, p, n) == SubSeq(bytes, p + 1, Min(p + n, Len(bytes)))

\* The next raw line of `for raw_line in fh`: up to and including the next
\* b"\n", or the rest of the file.
PlainRawLine(bytes, p) ==
    LET rest == SubSeq(bytes, p + 1, Len(bytes))
    IN  IF \E i \in 1..Len(rest) : rest[i] = NEWLINE
        THEN SubSeq(rest, 1, CHOOSE i \in 1..Len(rest) : rest[i] = NEWLINE /\ \A j \in 1..(i-1) : rest[j] # NEWLINE)
        ELSE rest

StreamIdle ==
    /\ seekable = TRUE
    /\ started = FALSE
    /\ pulling = FALSE
    /\ stopped = FALSE
    /\ content = <<>>
    /\ compressed = FALSE
    /\ chunk_size = 1
    /\ spc = "idle"
    /\ pos = 0
    /\ buffer = <<>>
    /\ lines = <<>>
    /\ line_idx = 0
    /\ yielded = <<>>

\* stream_zst_ndjson is a generator function (it holds `yield`): the call of
\* line 55 runs nothing of the body and returns the generator, which is the
\* state the model starts in; the body starts with the first next().
StreamInit ==
    /\ seekable \in BOOLEAN
    /\ started = FALSE
    /\ pulling = FALSE
    /\ stopped = FALSE
    /\ content \in SeqsUpTo(StreamBytes, MaxBytes)
    /\ compressed \in BOOLEAN
    /\ chunk_size \in 1..MaxChunk
    /\ spc = "open"
    /\ pos = 0
    /\ buffer = <<>>
    /\ lines = <<>>
    /\ line_idx = 0
    /\ yielded = <<>>

\* A plausible bug: a producer that runs on its own (a background thread).
RunningAlways == TRUE

\* The body of a generator runs only inside a next() of its consumer, from
\* the last `yield` (lines 78, 82, 88) to the next one.
Running == pulling

\* The consumer asks for the next line (the `for` of line 152).
ConsumerPull ==
    /\ ~pulling
    /\ ~stopped
    /\ spc \notin {"closed", "raised"}
    /\ pulling' = TRUE
    /\ UNCHANGED <<content, compressed, chunk_size, spc, pos, buffer, lines, line_idx, yielded, seekable, started, stopped>>
    /\ UNCHANGED notStreamVars

\* The consumer leaves its loop with lines still to come (line 158 raises
\* in process_file) and never asks again.
ConsumerStops ==
    /\ ~pulling
    /\ ~stopped
    /\ spc \notin {"closed", "raised"}
    /\ stopped' = TRUE
    /\ UNCHANGED <<content, compressed, chunk_size, spc, pos, buffer, lines, line_idx, yielded, seekable, started, pulling>>
    /\ UNCHANGED notStreamVars

\* Lines 60-68, run by the first next(): open, sniff the header, rewind,
\* choose the mode.
StreamOpen ==
    /\ spc = "open"
    /\ Running
    /\ seekable
    /\ started' = TRUE
    /\ spc' = IF compressed THEN "read" ELSE "plain"
    /\ buffer' = <<>>
    /\ UNCHANGED <<content, compressed, chunk_size, pos, lines, line_idx, yielded, seekable, pulling, stopped>>
    /\ UNCHANGED notStreamVars

\* Lines 60-64, run by the first next(): the handle has a seek attribute
\* (every file object has), and fh.seek(0) raises.
StreamOpenFails ==
    /\ spc = "open"
    /\ Running
    /\ ~seekable
    /\ started' = TRUE
    /\ spc' = "raised"
    /\ pulling' = FALSE
    /\ UNCHANGED <<content, compressed, chunk_size, pos, buffer, lines, line_idx, yielded, seekable, stopped>>
    /\ UNCHANGED notStreamVars

\* Lines 70-74: read one chunk, decode it on its own, split buffer + decoded.
StreamReadChunk ==
    /\ spc = "read"
    /\ Running
    /\ LET chunk == ReadChunk(content, pos, chunk_size)
       IN  IF chunk = <<>>
           THEN /\ spc' = "tail"
                /\ UNCHANGED <<pos, lines, line_idx>>
           ELSE /\ pos' = pos + Len(chunk)
                /\ lines' = SplitOn(buffer \o Utf8DecodeReplace(chunk), NEWLINE)
                /\ line_idx' = 1
                /\ spc' = "emit"
    /\ UNCHANGED <<content, compressed, chunk_size, buffer, yielded, seekable, started, pulling, stopped>>
    /\ UNCHANGED notStreamVars

\* Lines 75-78: one iteration of `for line in lines[:-1]`.
StreamEmitLine ==
    /\ spc = "emit"
    /\ Running
    /\ line_idx < Len(lines)
    /\ LET line == StripCodePoints(lines[line_idx])
       IN  /\ yielded' = IF line # <<>> THEN Append(yielded, line) ELSE yielded
           /\ pulling' = IF line # <<>> THEN FALSE ELSE pulling
    /\ line_idx' = line_idx + 1
    /\ UNCHANGED <<content, compressed, chunk_size, spc, pos, buffer, lines, seekable, started, stopped>>
    /\ UNCHANGED notStreamVars

\* Line 79: the last fragment is kept for the next chunk.
StreamKeepFragment ==
    /\ spc = "emit"
    /\ Running
    /\ line_idx = Len(lines)
    /\ buffer' = lines[Len(lines)]
    /\ spc' = "read"
    /\ UNCHANGED <<content, compressed, chunk_size, pos, lines, line_idx, yielded, seekable, started, pulling, stopped>>
    /\ UNCHANGED notStreamVars

\* Lines 80-82: close the reader, yield what is left in the buffer; the
\* generator has nothing more to run and the next() returns.
StreamTail ==
    /\ spc = "tail"
    /\ Running
    /\ yielded' = IF StripCodePoints(buffer) # <<>> THEN Append(yielded, StripCodePoints(buffer)) ELSE yielded
    /\ spc' = "closed"
    /\ pulling' = FALSE
    /\ UNCHANGED <<content, compressed, chunk_size, pos, buffer, lines, line_idx, seekable, started, stopped>>
    /\ UNCHANGED notStreamVars

\* Lines 85-88: one iteration of `for raw_line in fh`, or its end.
StreamPlainLine ==
    /\ spc = "plain"
    /\ Running
    /\ LET raw_line == PlainRawLine(content, pos)
           line == StripCodePoints(Utf8DecodeReplace(raw_line))
       IN  IF raw_line = <<>>
           THEN /\ spc' = "closed"
                /\ pulling' = FALSE
                /\ UNCHANGED <<pos, yielded>>
           ELSE /\ pos' = pos + Len(raw_line)
                /\ yielded' = IF line # <<>> THEN Append(yielded, line) ELSE yielded
                /\ pulling' = IF line # <<>> THEN FALSE ELSE pulling
                /\ spc' = "plain"
    /\ UNCHANGED <<content, compressed, chunk_size, buffer, lines, line_idx, seekable, started, stopped>>
    /\ UNCHANGED notStreamVars

StreamNext ==
    \/ ConsumerPull
    \/ ConsumerStops
    \/ StreamOpen
    \/ StreamOpenFails
    \/ StreamReadChunk
    \/ StreamEmitLine
    \/ StreamKeepFragment
    \/ StreamTail
    \/ StreamPlainLine


(***************************************************************************)
(* merge_and_deduplicate.                                                  *)
(*                                                                         *)
(* A DataFrame is [columns |-> set of names, rows |-> sequence of rows];   *)
(* a row is [label |-> its index label, cells |-> [columns -> value]].     *)
(* A cell value is a string (a sequence of one-character atoms) or NaN.    *)
(***************************************************************************)
\* Bound of the merge component: rows per input DataFrame.
MaxRows == 2

\* numpy.nan, the missing value: a one-atom sequence whose atom is no
\* character, so it differs from every string.
NaN == <<"NaN">>

\* Values of the cells of the input DataFrames.  A missing key (NaN) comes
\* into the concatenation with every row of a DataFrame that has no key
\* column.
KeyValues == {<<"1">>, <<"2">>}

TextValues == {<<"a">>, <<"A", " ">>, <<"b">>}

CellValues(col) ==
    CASE col = "id" -> KeyValues
      [] col = "text" -> TextValues
      [] OTHER -> {<<"x">>}

\* Column sets of the input DataFrames: key and text, text only, key only,
\* neither.
Schemas == {{"id", "text"}, {"text"}, {"id"}, {"label"}}

\* A DataFrame with a fresh RangeIndex 0..n-1 over the given cell rows.
MakeFrame(cols, cellRows) ==
    [columns |-> cols,
     rows |-> [i \in 1..Len(cellRows) |-> [label |-> i - 1, cells |-> cellRows[i]]]]

\* The rows a DataFrame over the given columns can hold.
CellRows(cols) == {f \in [cols -> UNION {CellValues(c) : c \in cols}] : \A c \in cols : f[c] \in CellValues(c)}

\* A key of an int64 column, hi * 2^30 + lo, and what it is as a float64.
Int64(hi, lo) == <<"int64", hi, lo>>

Float64(hi, lo) == <<"float64", hi, lo>>

IsInt64(v) == Len(v) = 3 /\ v[1] = "int64"

\* Keys of the size of tweet ids, one apart.
Int64Keys == {Int64(2^30, 0), Int64(2^30, 1)}

\* DataFrames whose key column was read as integers (dtype int64).
Int64Frames == {MakeFrame({"id"}, cr) : cr \in SeqsUpTo([{"id"} -> Int64Keys], MaxRows) \ {<<>>}}

Frames == UNION {{MakeFrame(cols, cr) : cr \in SeqsUpTo(CellRows(cols), MaxRows)} : cols \in Schemas} \cup Int64Frames

RECURSIVE BitLength(_)
BitLength(n) == IF n = 0 THEN 0 ELSE 1 + BitLength(n \div 2)

\* The float64 nearest to an int64 (ties to even): the 53 leading bits are
\* kept.  The bits that go are among those of lo.
ToFloat64(v) ==
    LET hi == v[2]
        lo == v[3]
        bits == IF hi = 0 THEN BitLength(lo) ELSE 30 + BitLength(hi)
        unit == IF bits > 53 THEN 2^(bits - 53) ELSE 1
        down == lo - (lo % unit)
        half == 2 * (lo % unit)
        up == IF half > unit \/ (half = unit /\ (down \div unit) % 2 = 1) THEN down + unit ELSE down
    IN  IF up = 2^30 THEN Float64(hi + 1, 0) ELSE Float64(hi, up)

\* What a cell becomes in a column that concat has to fill with NaN: an
\* int64 column cannot hold NaN and is converted to float64.
Upcast(v) == IF IsInt64(v) THEN ToFloat64(v) ELSE v

EmptyFrame == [columns |-> {}, rows |-> <<>>]

\* pd.concat([a, b], ignore_index=True): the rows of a, then those of b,
\* relabelled 0..n+m-1, over the union of the columns, NaN where a frame
\* has no such column; a column that gets a NaN this way has its integers
\* converted to float64.
Concat(a, b) ==
    LET cols == a.columns \cup b.columns
        filled(c) == (c \notin a.columns /\ a.rows # <<>>) \/ (c \notin b.columns /\ b.rows # <<>>)
        widen(r) == [c \in cols |-> IF c \notin DOMAIN r.cells THEN NaN
                                     ELSE IF filled(c) THEN Upcast(r.cells[c]) ELSE r.cells[c]]
        all == a.rows \o b.rows
    IN  [columns |-> cols,
         rows |-> [i \in 1..Len(all) |-> [label |-> i - 1, cells |-> widen(all[i])]]]

\* Line 207 and line 216.
id_columns == <<"tweet_id", "id", "tweetId", "status_id", "tweetid">>

text_columns == <<"text", "tweet", "content", "message">>

\* `for col in candidates: if col in df.columns: ...; break`
FirstPresent(candidates, columns) ==
    IF \E i \in 1..Len(candidates) : candidates[i] \in columns
    THEN candidates[CHOOSE i \in 1..Len(candidates) : candidates[i] \in columns /\ \A j \in 1..(i-1) : candidates[j] \notin columns]
    ELSE None

\* The rows of df at the given positions, order and labels kept.
RECURSIVE KeepRows(_, _)
KeepRows(rows, keep) ==
    IF rows = <<>> THEN <<>>
    ELSE LET n == Len(rows)
             front == KeepRows(SubSeq(rows, 1, n - 1), keep)
         IN  IF n \in keep THEN Append(front, rows[n]) ELSE front

\* A plausible bug: keep='last'.
DropDuplicatesKeepLast(df, col) ==
    [df EXCEPT !.rows = KeepRows(df.rows, {i \in 1..Len(df.rows) : \A j \in (i+1)..Len(df.rows) : df.rows[j].cells[col] # df.rows[i].cells[col]})]

\* df.drop_duplicates(subset=[col], keep='first'): a row goes when an
\* earlier row has the same value in col; missing values count as equal to
\* each other.
DropDuplicates(df, col) ==
    [df EXCEPT !.rows = KeepRows(df.rows, {i \in 1..Len(df.rows) : \A j \in 1..(i-1) : df.rows[j].cells[col] # df.rows[i].cells[col]})]

\* Series.astype(str): a missing value becomes the string "nan".
AsTypeStr(v) == IF v = NaN THEN <<"n", "a", "n">> ELSE v

LowerAtom(ch) ==
    CASE ch = "A" -> "a"
      [] ch = "B" -> "b"
      [] ch = "N" -> "n"
      [] ch = "C" -> "c"
      [] ch = "D" -> "d"
      [] ch = "E" -> "e"
      [] ch = "I" -> "i"
      [] ch = "M" -> "m"
      [] ch = "O" -> "o"
      [] ch = "P" -> "p"
      [] ch = "R" -> "r"
      [] ch = "S" -> "s"
      [] ch = "T" -> "t"
      [] ch = "U" -> "u"
      [] OTHER -> ch

\* str.lower()
StrLower(s) == [i \in 1..Len(s) |-> LowerAtom(s[i])]

WhitespaceAtoms == {" ", "\t", "\n", "\r"}

\* str.strip()
RECURSIVE StrStrip(_)
StrStrip(s) ==
    IF s = <<>> THEN s
    ELSE IF s[1] \in WhitespaceAtoms THEN StrStrip(Tail(s))
    ELSE IF s[Len(s)] \in WhitespaceAtoms THEN StrStrip(SubSeq(s, 1, Len(s) - 1))
    ELSE s

\* A plausible bug: the comparison text is lower-cased but not trimmed.
NormalizeTextNoStrip(v) == StrLower(AsTypeStr(v))

\* A plausible bug: the comparison text is trimmed but not lower-cased.
NormalizeTextNoLower(v) == StrStrip(AsTypeStr(v))

\* merged_df[text_col].astype(str).str.lower().str.strip()
NormalizeText(v) == StrStrip(StrLower(AsTypeStr(v)))

\* df[col] = values (one per row): the column is added, or overwritten
\* when it exists.
AssignColumn(df, col, values) ==
    [columns |-> df.columns \cup {col},
     rows |-> [i \in 1..Len(df.rows) |->
                [df.rows[i] EXCEPT !.cells = [c \in df.columns \cup {col} |-> IF c = col THEN values[i] ELSE df.rows[i].cells[c]]]]]

\* df.drop(columns=[col])
DropColumn(df, col) ==
    [columns |-> df.columns \ {col},
     rows |-> [i \in 1..Len(df.rows) |->
                [df.rows[i] EXCEPT !.cells = [c \in df.columns \ {col} |-> df.rows[i].cells[c]]]]]

\* A plausible bug: the result of drop_duplicates is not assigned back.
DedupByIdNotAssigned(df, col) == df

\* Line 227.
DedupById(df, col) == DropDuplicates(df, col)

\* A plausible bug: the text stage leaves the frame as it is.
DedupByTextSkipped(df, col) == df

\* Lines 235-237 and 246-248: the helper column is added, rows are dropped
\* on it, the helper column is removed.
DedupByText(df, col) ==
    LET normalized == [i \in 1..Len(df.rows) |-> NormalizeText(df.rows[i].cells[col])]
        helper == AssignColumn(df, "_text_normalized", normalized)
    IN  DropColumn(DropDuplicates(helper, "_text_normalized"), "_text_normalized")

\* A plausible bug: the text-stage count replaces the total.
AccumulateOverwrite(removed, text_dups) == text_dups

\* Lines 239-241.
Accumulate(removed, text_dups) == IF text_dups > 0 THEN removed + text_dups ELSE removed

MergeIdle ==
    /\ biden_df = EmptyFrame
    /\ trump_df = EmptyFrame
    /\ mpc = "idle"
    /\ merged_df = EmptyFrame
    /\ original_count = 0
    /\ id_col = None
    /\ text_col = None
    /\ duplicates_removed = 0
    /\ text_duplicates = 0

MergeInit ==
    /\ biden_df \in Frames
    /\ trump_df \in Frames
    /\ mpc = "call"
    /\ merged_df = EmptyFrame
    /\ original_count = 0
    /\ id_col = None
    /\ text_col = None
    /\ duplicates_removed = 0
    /\ text_duplicates = 0

\* Lines 200-221: concatenate, count, find the key and the text column.
MergeConcat ==
    /\ mpc = "call"
    /\ merged_df' = Concat(biden_df, trump_df)
    /\ original_count' = Len(merged_df'.rows)
    /\ id_col' = FirstPresent(id_columns, merged_df'.columns)
    /\ text_col' = FirstPresent(text_columns, merged_df'.columns)
    /\ mpc' = "merged"
    /\ UNCHANGED <<biden_df, trump_df, duplicates_removed, text_duplicates>>
    /\ UNCHANGED notMergeVars

\* Lines 224-229: the identity stage.
MergeIdStage ==
    /\ mpc = "merged"
    /\ id_col # None
    /\ merged_df' = DedupById(merged_df, id_col)
    /\ duplicates_removed' = original_count - Len(merged_df'.rows)
    /\ mpc' = IF text_col # None THEN "id_done" ELSE "report"
    /\ UNCHANGED <<biden_df, trump_df, original_count, id_col, text_col, text_duplicates>>
    /\ UNCHANGED notMergeVars

\* Lines 232-241: the text stage on what the identity stage left.
MergeTextStage ==
    /\ mpc = "id_done"
    /\ merged_df' = DedupByText(merged_df, text_col)
    /\ text_duplicates' = Len(merged_df.rows) - Len(merged_df'.rows)
    /\ duplicates_removed' = Accumulate(duplicates_removed, text_duplicates')
    /\ mpc' = "report"
    /\ UNCHANGED <<biden_df, trump_df, original_count, id_col, text_col>>
    /\ UNCHANGED notMergeVars

\* Lines 242-250: no key column, the text stage alone.
MergeTextOnly ==
    /\ mpc = "merged"
    /\ id_col = None
    /\ text_col # None
    /\ merged_df' = DedupByText(merged_df, text_col)
    /\ duplicates_removed' = original_count - Len(merged_df'.rows)
    /\ mpc' = "report"
    /\ UNCHANGED <<biden_df, trump_df, original_count, id_col, text_col, text_duplicates>>
    /\ UNCHANGED notMergeVars

\* Lines 251-253: neither column, a warning and nothing removed.
MergeNoDedup ==
    /\ mpc = "merged"
    /\ id_col = None
    /\ text_col = None
    /\ duplicates_removed' = 0
    /\ mpc' = "report"
    /\ UNCHANGED <<biden_df, trump_df, merged_df, original_count, id_col, text_col, text_duplicates>>
    /\ UNCHANGED notMergeVars

\* Lines 255-258: report the totals and return merged_df.
MergeReturn ==
    /\ mpc = "report"
    /\ mpc' = "done"
    /\ UNCHANGED <<biden_df, trump_df, merged_df, original_count, id_col, text_col, duplicates_removed, text_duplicates>>
    /\ UNCHANGED notMergeVars

MergeNext ==
    \/ MergeConcat
    \/ MergeIdStage
    \/ MergeTextStage
    \/ MergeTextOnly
    \/ MergeNoDedup
    \/ MergeReturn


(***************************************************************************)
(* normalize_record.                                                       *)
(*                                                                         *)
(* A JSON value is [t |-> its type, n |-> its number, s |-> its string];   *)
(* a string is a sequence of atoms, chosen so that "http" and "t3_" occur  *)
(* in it only as whole atoms.  obj is [kind, fields]: a dict with its      *)
(* fields, or another JSON value.                                          *)
(***************************************************************************)
JStr(s) == [t |-> "str", n |-> 0, s |-> s]

JInt(n) == [t |-> "int", n |-> n, s |-> <<>>]

\* The float n.0
JFloat(n) == [t |-> "float", n |-> n, s |-> <<>>]

JBool(b) == [t |-> "bool", n |-> IF b THEN 1 ELSE 0, s |-> <<>>]

JNull == [t |-> "null", n |-> 0, s |-> <<>>]

\* bool(v)
Truthy(v) ==
    CASE v.t = "str" -> v.s # <<>>
      [] v.t \in {"int", "float", "bool"} -> v.n # 0
      [] OTHER -> FALSE

DigitAtoms == <<"0", "1", "2", "3", "4", "5", "6", "7", "8", "9">>

DigitValue(ch) == (CHOOSE i \in 1..10 : DigitAtoms[i] = ch) - 1

RECURSIVE Digits(_)
Digits(n) == IF n < 10 THEN <<DigitAtoms[n + 1]>> ELSE Append(Digits(n \div 10), DigitAtoms[(n % 10) + 1])

IntStr(n) == IF n < 0 THEN <<"-">> \o Digits(0 - n) ELSE Digits(n)

\* str(v), also what an f-string puts for v.
PyStr(v) ==
    CASE v.t = "str" -> v.s
      [] v.t = "int" -> IntStr(v.n)
      [] v.t = "float" -> IntStr(v.n) \o <<".", "0">>
      [] v.t = "bool" -> IF v.n = 1 THEN <<"True">> ELSE <<"False">>
      [] OTHER -> <<"None">>

RECURSIVE DigitsValue(_)
DigitsValue(ds) == IF ds = <<>> THEN 0 ELSE 10 * DigitsValue(SubSeq(ds, 1, Len(ds) - 1)) + DigitValue(ds[Len(ds)])

\* int(s): surrounding whitespace and one sign are accepted, then decimal
\* digits only; anything else is a ValueError (ok = FALSE).
PyInt(s) ==
    LET t == StrStrip(s)
        signed == t # <<>> /\ t[1] \in {"+", "-"}
        body == IF signed THEN Tail(t) ELSE t
        ok == body # <<>> /\ \A i \in 1..Len(body) : \E k \in 1..10 : DigitAtoms[k] = body[i]
    IN  [ok |-> ok,
         n |-> IF ~ok THEN 0 ELSE IF signed /\ t[1] = "-" THEN 0 - DigitsValue(body) ELSE DigitsValue(body)]

SECONDS_PER_DAY == 86400

\* date of a day count since 1970-01-01 in the proleptic Gregorian calendar,
\* as <<year, month, day>>.
CivilFromDays(days) ==
    LET z == days + 719468
        era == z \div 146097
        doe == z - era * 146097
        yoe == (doe - doe \div 1460 + doe \div 36524 - doe \div 146096) \div 365
        doy == doe - (365 * yoe + yoe \div 4 - yoe \div 100)
        mp == (5 * doy + 2) \div 153
        d == doy - (153 * mp + 2) \div 5 + 1
        m == IF mp < 10 THEN mp + 3 ELSE mp - 9
        y == yoe + era * 400
    IN  <<IF m <= 2 THEN y + 1 ELSE y, m, d>>

\* Line 52: int(ts) may fail; the UTC date of the epoch second otherwise.
utc_date_from_timestamp(ts) ==
    LET parsed == PyInt(ts)
    IN  [ok |-> parsed.ok,
         date |-> IF parsed.ok THEN CivilFromDays(parsed.n \div SECONDS_PER_DAY) ELSE <<0, 0, 0>>]

\* Lines 24-25.
DATE_FROM == <<2020, 10, 15>>

DATE_TO == <<2020, 11, 8>>

\* date < date
DateLt(a, b) ==
    \/ a[1] < b[1]
    \/ a[1] = b[1] /\ a[2] < b[2]
    \/ a[1] = b[1] /\ a[2] = b[2] /\ a[3] < b[3]

\* A plausible bug: the window test excludes its two end dates.
OutsideWindowExclusive(d) == ~DateLt(DATE_FROM, d) \/ ~DateLt(d, DATE_TO)

\* Line 102.
OutsideWindow(d) == DateLt(d, DATE_FROM) \/ DateLt(DATE_TO, d)

PadLeft(ds, width) == [i \in 1..(width - Len(ds)) |-> "0"] \o ds

\* date.isoformat()
IsoFormat(d) == PadLeft(Digits(d[1]), 4) \o <<"-">> \o PadLeft(Digits(d[2]), 2) \o <<"-">> \o PadLeft(Digits(d[3]), 2)

\* obj.get(key, default)
Get(d, key, default) == IF key \in DOMAIN d THEN d[key] ELSE default

\* str.startswith(prefix)
StartsWith(s, prefix) == Len(s) >= Len(prefix) /\ SubSeq(s, 1, Len(prefix)) = prefix

\* str.replace(old, ""): every occurrence of the atom goes.
RECURSIVE RemoveAll(_, _)
RemoveAll(s, old) ==
    IF s = <<>> THEN <<>>
    ELSE IF s[1] = old THEN RemoveAll(Tail(s), old)
    ELSE <<s[1]>> \o RemoveAll(Tail(s), old)

\* The literal "https://www.reddit.com" of lines 112, 115 and 120.
REDDIT == <<"http", "s", "://", "www.reddit.com">>

\* Lines 108-120: the url, or the AttributeError of url.startswith on a
\* permalink that is truthy and no string.
DeriveUrl(d, sub) ==
    LET url == Get(d, "permalink", JNull)
        subreddit == Get(d, "subreddit", JStr(<<>>))
    IN  IF ~Truthy(url)
        THEN IF sub /\ "permalink" \in DOMAIN d
             THEN [raised |-> FALSE, url |-> REDDIT \o PyStr(d["permalink"])]
             ELSE IF ~sub /\ "link_id" \in DOMAIN d /\ "id" \in DOMAIN d
             THEN [raised |-> FALSE,
                   url |-> REDDIT \o <<"/r/">> \o PyStr(subreddit) \o <<"/comments/">>
                           \o RemoveAll(PyStr(d["link_id"]), "t3_") \o <<"/_/">> \o PyStr(d["id"])]
             ELSE [raised |-> FALSE, url |-> <<>>]
        ELSE IF url.t # "str"
             THEN [raised |-> TRUE, url |-> <<>>]
             ELSE IF ~StartsWith(url.s, <<"http">>)
             THEN [raised |-> FALSE, url |-> REDDIT \o url.s]
             ELSE [raised |-> FALSE, url |-> url.s]

\* x or ""
OrEmpty(v) == IF Truthy(v) THEN v ELSE JStr(<<>>)

\* Lines 122-145.
BuildRecord(d, sub, created_date, url) ==
    [id |-> Get(d, "id", JStr(<<>>)),
     type |-> IF sub THEN "submission" ELSE "comment",
     subreddit |-> Get(d, "subreddit", JStr(<<>>)),
     author |-> Get(d, "author", JStr(<<>>)),
     date |-> IsoFormat(created_date),
     score |-> Get(d, "score", JInt(0)),
     title |-> IF sub THEN Get(d, "title", JStr(<<>>)) ELSE JStr(<<>>),
     content |-> IF sub
                 THEN IF Truthy(Get(d, "is_self", JNull))
                      THEN OrEmpty(Get(d, "selftext", JStr(<<>>)))
                      ELSE OrEmpty(Get(d, "selftext", JStr(<<>>)))
                 ELSE OrEmpty(Get(d, "body", JStr(<<>>))),
     url |-> url,
     parent_id |-> IF ~sub THEN Get(d, "parent_id", JStr(<<>>)) ELSE JStr(<<>>),
     link_id |-> IF ~sub THEN Get(d, "link_id", JStr(<<>>)) ELSE JStr(<<>>)]

\* The raw events the call is tried on.  Absent marks a key the dict does
\* not have.
Absent == [t |-> "absent", n |-> 0, s |-> <<>>]

Timestamps == {0 - 1, 0, 1602719999, 1602720000, 1603929600, 1604879999, 1604880000}

CreatedOptions ==
    {Absent, JNull, JFloat(1602720000), JStr(<<"a", "b", "c">>),
     JStr(Digits(1602720000)), JStr(Digits(1604880000)),
     JStr(<<" ">> \o Digits(1604879999) \o <<"\n">>)}
    \cup {JInt(ts) : ts \in Timestamps}

RelativePermalink == <<"/r/", "x", "/comments/", "abc", "/title/">>

PermalinkOptions ==
    {Absent, JNull, JStr(<<>>), JInt(5),
     JStr(RelativePermalink),
     JStr(REDDIT \o RelativePermalink),
     JStr(<<"HTTPS", "://", "www.reddit.com">> \o RelativePermalink),
     JStr(<<"http", "-threads/", "abc">>)}

LinkIdOptions == {Absent, JStr(<<"t3_", "abc">>), JStr(<<"abc">>), JStr(<<"t3_", "abc", "t3_", "def">>)}

IdOptions == {Absent, JStr(<<"c1">>)}

SubredditOptions == {Absent, JStr(<<"x">>)}

\* The other fields, all there or all missing.
OtherFields(present) ==
    IF present
    THEN [title |-> JStr(<<"T">>), selftext |-> JStr(<<"S">>), body |-> JStr(<<"B">>), author |-> JStr(<<"u">>),
          score |-> JInt(3), parent_id |-> JStr(<<"t1_", "p">>), is_self |-> JBool(TRUE)]
    ELSE <<>>

MakeDict(cu, pl, li, id, sr, others) ==
    LET core == [created_utc |-> cu, permalink |-> pl, link_id |-> li, id |-> id, subreddit |-> sr]
        keys == {k \in DOMAIN core : core[k] # Absent} \cup DOMAIN OtherFields(others)
    IN  [kind |-> "dict",
         fields |-> [k \in keys |-> IF k \in DOMAIN core THEN core[k] ELSE OtherFields(others)[k]]]

\* A line that holds a JSON value other than an object.
NonDict == [kind |-> "list", fields |-> <<>>]

RawEvents ==
    {MakeDict(cu, pl, li, id, sr, others) :
        cu \in CreatedOptions, pl \in PermalinkOptions, li \in LinkIdOptions,
        id \in IdOptions, sr \in SubredditOptions, others \in BOOLEAN}
    \cup {NonDict}

NoDate == <<0, 0, 0>>

Pending == [kind |-> "pending"]

NormIdle ==
    /\ obj = NonDict
    /\ is_submission = FALSE
    /\ npc = "idle"
    /\ created = NoDate
    /\ result = Pending

NormInit ==
    /\ obj \in RawEvents
    /\ is_submission \in BOOLEAN
    /\ npc = "call"
    /\ created = NoDate
    /\ result = Pending

\* Lines 96-103: read and parse created_utc inside try/except Exception
\* (obj["created_utc"] on a value that is no dict, a missing key and a
\* failing int() all end in `return None`), then the window test.
NormalizeFilter ==
    /\ npc = "call"
    /\ IF obj.kind # "dict" \/ "created_utc" \notin DOMAIN obj.fields
       THEN /\ result' = [kind |-> "none"]
            /\ npc' = "done"
            /\ UNCHANGED created
       ELSE LET parsed == utc_date_from_timestamp(PyStr(obj.fields["created_utc"]))
            IN  IF ~parsed.ok
                THEN /\ result' = [kind |-> "none"]
                     /\ npc' = "done"
                     /\ UNCHANGED created
                ELSE /\ created' = parsed.date
                     /\ IF OutsideWindow(parsed.date)
                        THEN result' = [kind |-> "none"] /\ npc' = "done"
                        ELSE result' = result /\ npc' = "build"
    /\ UNCHANGED <<obj, is_submission>>
    /\ UNCHANGED notNormVars

\* Lines 105-145: derive the url, build and return the record; the
\* AttributeError of line 119 leaves the function.
NormalizeBuild ==
    /\ npc = "build"
    /\ LET derived == DeriveUrl(obj.fields, is_submission)
       IN  IF derived.raised
           THEN /\ result' = [kind |-> "raise"]
                /\ npc' = "raised"
           ELSE /\ result' = [kind |-> "record", record |-> BuildRecord(obj.fields, is_submission, created, derived.url)]
                /\ npc' = "done"
    /\ UNCHANGED <<obj, is_submission, created>>
    /\ UNCHANGED notNormVars

NormNext ==
    \/ NormalizeFilter
    \/ NormalizeBuild

(***************************************************************************)
(* process_file.                                                           *)
(*                                                                         *)
(* A file is [lines, readable]: the lines stream_zst_ndjson yields for it  *)
(* and whether opening and rewinding it succeeds.  A line is               *)
(* [head, fields, tail]: its first character, the members between the      *)
(* brackets and its last character ("" when the line is cut short).        *)
(***************************************************************************)
MaxLines == 3

\* normalize_record(obj, is_submission) as a value: what the two steps
\* NormalizeFilter and NormalizeBuild produce for one call.
NormalizeRecord(o, sub) ==
    IF o.kind # "dict" \/ "created_utc" \notin DOMAIN o.fields
    THEN [kind |-> "none"]
    ELSE LET parsed == utc_date_from_timestamp(PyStr(o.fields["created_utc"]))
         IN  IF ~parsed.ok \/ OutsideWindow(parsed.date)
             THEN [kind |-> "none"]
             ELSE LET derived == DeriveUrl(o.fields, sub)
                  IN  IF derived.raised
                      THEN [kind |-> "raise"]
                      ELSE [kind |-> "record", record |-> BuildRecord(o.fields, sub, parsed.date, derived.url)]

\* json.loads(line): an object or an array whose brackets match is a value,
\* everything else is a JSONDecodeError (ok = FALSE).
JsonLoads(line) ==
    IF line.head = "{" /\ line.tail = "}"
    THEN [ok |-> TRUE, obj |-> [kind |-> "dict", fields |-> line.fields]]
    ELSE IF line.head = "[" /\ line.tail = "]"
    THEN [ok |-> TRUE, obj |-> NonDict]
    ELSE [ok |-> FALSE, obj |-> NonDict]

ObjectLine(fields) == [head |-> "{", fields |-> fields, tail |-> "}"]

\* Two events inside the window, one before it, one whose permalink is a
\* number.
EventInWindowA ==
    [id |-> JStr(<<"e1">>), created_utc |-> JInt(1602720000), permalink |-> JStr(RelativePermalink),
     subreddit |-> JStr(<<"x">>), link_id |-> JStr(<<"t3_", "abc">>)]

EventInWindowB ==
    [id |-> JStr(<<"e2">>), created_utc |-> JStr(Digits(1604879999)),
     subreddit |-> JStr(<<"x">>), link_id |-> JStr(<<"t3_", "abc">>)]

EventBeforeWindow == [id |-> JStr(<<"e3">>), created_utc |-> JInt(1602719999)]

EventNumericPermalink == [id |-> JStr(<<"e4">>), created_utc |-> JInt(1602720000), permalink |-> JInt(5)]

TruncatedLine == [head |-> "{", fields |-> EventInWindowA, tail |-> ""]

MismatchedLine == [head |-> "{", fields |-> EventInWindowB, tail |-> "]"]

GarbageLine == [head |-> "x", fields |-> <<>>, tail |-> "x"]

ArrayLine == [head |-> "[", fields |-> <<>>, tail |-> "]"]

FileLines ==
    {ObjectLine(EventInWindowA), ObjectLine(EventInWindowB), ObjectLine(EventBeforeWindow),
     ObjectLine(EventNumericPermalink), TruncatedLine, MismatchedLine, GarbageLine, ArrayLine}

NoFile == [lines |-> <<>>, readable |-> TRUE]

FileIdle ==
    /\ pf_file = NoFile
    /\ pf_is_submission = FALSE
    /\ pf_pc = "idle"
    /\ pf_idx = 0
    /\ pf_out = <<>>
    /\ open_handles = {}

FileInit ==
    /\ pf_file \in [lines : SeqsUpTo(FileLines, MaxLines), readable : BOOLEAN]
    /\ pf_is_submission \in BOOLEAN
    /\ pf_pc = "start"
    /\ pf_idx = 0
    /\ pf_out = <<>>
    /\ open_handles = {}

\* The handle that the stream of the current process_file call holds: the
\* file of one kind of the source the loop of main is at.
Handle == [source |-> sub_idx, is_submission |-> pf_is_submission]

\* A plausible bug: the handle is not released when the stream ends.
LeaveOpen(handles, h) == handles

\* Line 60, the end of the `with` block: the file is closed.
CloseHandle(handles, h) == handles \ {h}

\* Line 152, first pull: the stream opens the file (line 60).
FileOpen ==
    /\ pf_pc = "start"
    /\ pf_file.readable
    /\ open_handles' = open_handles \cup {Handle}
    /\ pf_pc' = "loop"
    /\ UNCHANGED <<pf_file, pf_is_submission, pf_idx, pf_out>>
    /\ UNCHANGED notFileVars

\* Line 152, first pull: the stream opens the file (lines 60-64) and fails.
FileOpenFails ==
    /\ pf_pc = "start"
    /\ ~pf_file.readable
    /\ pf_pc' = "raised"
    /\ UNCHANGED <<pf_file, pf_is_submission, pf_idx, pf_out, open_handles>>
    /\ UNCHANGED notFileVars

\* What one iteration of the loop of lines 152-160 does with the next line.
LineOutcome ==
    LET loaded == JsonLoads(pf_file.lines[pf_idx + 1])
    IN  IF ~loaded.ok THEN [kind |-> "malformed"] ELSE NormalizeRecord(loaded.obj, pf_is_submission)

HasLine == pf_pc = "loop" /\ pf_idx < Len(pf_file.lines)

\* Lines 153-157: json.loads raises JSONDecodeError, `continue`.
FileSkipMalformed ==
    /\ HasLine
    /\ LineOutcome.kind = "malformed"
    /\ pf_idx' = pf_idx + 1
    /\ UNCHANGED <<pf_file, pf_is_submission, pf_pc, pf_out, open_handles>>
    /\ UNCHANGED notFileVars

\* Lines 158-159: normalize_record returns None, nothing is yielded.
FileDropRecord ==
    /\ HasLine
    /\ LineOutcome.kind = "none"
    /\ pf_idx' = pf_idx + 1
    /\ UNCHANGED <<pf_file, pf_is_submission, pf_pc, pf_out, open_handles>>
    /\ UNCHANGED notFileVars

\* Lines 158-160: normalize_record returns a record, it is yielded.
FileYieldRecord ==
    /\ HasLine
    /\ LineOutcome.kind = "record"
    /\ pf_out' = Append(pf_out, LineOutcome.record)
    /\ pf_idx' = pf_idx + 1
    /\ UNCHANGED <<pf_file, pf_is_submission, pf_pc, open_handles>>
    /\ UNCHANGED notFileVars

\* Line 158: normalize_record raises, the exception leaves the generator.
\* The stream is left suspended inside its `with` block: its file is closed
\* when the stream is collected, which may be now or not before the run is
\* over.
FileRecordRaises ==
    /\ HasLine
    /\ LineOutcome.kind = "raise"
    /\ pf_pc' = "raised"
    /\ open_handles' \in {open_handles, CloseHandle(open_handles, Handle)}
    /\ UNCHANGED <<pf_file, pf_is_submission, pf_idx, pf_out>>
    /\ UNCHANGED notFileVars

\* Line 152: the stream is exhausted, the generator returns.
FileExhausted ==
    /\ pf_pc = "loop"
    /\ pf_idx = Len(pf_file.lines)
    /\ open_handles' = CloseHandle(open_handles, Handle)
    /\ pf_pc' = "done"
    /\ UNCHANGED <<pf_file, pf_is_submission, pf_idx, pf_out>>
    /\ UNCHANGED notFileVars

FileNext ==
    \/ FileOpen
    \/ FileOpenFails
    \/ FileSkipMalformed
    \/ FileDropRecord
    \/ FileYieldRecord
    \/ FileRecordRaises
    \/ FileExhausted

(***************************************************************************)
(* find_input_file.                                                        *)
(*                                                                         *)
(* A name is a sequence of characters.  A directory is the sequence of its *)
(* entries in the order iterdir() gives them, which is any order; an entry *)
(* is [name, is_file, file].                                               *)
(***************************************************************************)
MaxEntries == 3

democrats == <<"d", "e", "m", "o", "c", "r", "a", "t", "s">>

republican == <<"r", "e", "p", "u", "b", "l", "i", "c", "a", "n">>

submission == <<"s", "u", "b", "m", "i", "s", "s", "i", "o", "n">>

comment == <<"c", "o", "m", "m", "e", "n", "t">>

Capitalized(word) == <<CHOOSE up \in {"C", "D", "R", "S"} : LowerAtom(up) = word[1]>> \o Tail(word)

\* sub in s
Contains(s, sub) == \E i \in 0..(Len(s) - Len(sub)) : SubSeq(s, i + 1, i + Len(sub)) = sub

\* Lines 168-174: the regular files whose lower-cased name contains the
\* lower-cased subreddit and the kind as it was passed.
Candidates(dir, sub, kind) ==
    SelectSeq(dir, LAMBDA e : e.is_file /\ Contains(StrLower(e.name), StrLower(sub)) /\ Contains(StrLower(e.name), kind))

\* Line 180: sorted(candidates, key=lambda p: len(p.name))[0]; the sort is
\* stable, so among the shortest names the first in directory order wins.
ShortestFirst(cands) ==
    cands[CHOOSE i \in 1..Len(cands) :
            /\ \A j \in 1..Len(cands) : Len(cands[j].name) >= Len(cands[i].name)
            /\ \A j \in 1..(i - 1) : Len(cands[j].name) > Len(cands[i].name)]

\* Lines 163-180.
FindInputFile(dir, sub, kind) ==
    LET candidates == Candidates(dir, sub, kind)
    IN  IF candidates = <<>>
        THEN [found |-> FALSE, entry |-> [name |-> <<>>, is_file |-> FALSE, file |-> NoFile]]
        ELSE [found |-> TRUE, entry |-> ShortestFirst(candidates)]

Entry(name, is_file) == [name |-> name, is_file |-> is_file, file |-> NoFile]

ZstName(sub, kind, decoration) == sub \o <<"_">> \o kind \o <<"s">> \o decoration \o <<".", "z", "s", "t">>

FindEntries ==
    {Entry(ZstName(democrats, submission, <<>>), TRUE),
     Entry(ZstName(Capitalized(democrats), Capitalized(submission), <<>>), TRUE),
     Entry(ZstName(democrats, submission, <<"_", "o", "l", "d">>), TRUE),
     Entry(submission \o <<"s", "_">> \o democrats \o <<".", "z", "s", "t">>, TRUE),
     Entry(democrats \o <<"_">> \o submission, FALSE),
     Entry(ZstName(democrats, comment, <<>>), TRUE),
     Entry(ZstName(republican, submission, <<>>), TRUE)}

\* The directories: sequences of distinct entries.
Directories == {d \in SeqsUpTo(FindEntries, MaxEntries) : \A i, j \in 1..Len(d) : i # j => d[i] # d[j]}

NoResult == [found |-> FALSE, entry |-> Entry(<<>>, FALSE)]

FindIdle ==
    /\ find_base_dir = <<>>
    /\ find_subreddit = <<>>
    /\ find_kind = <<>>
    /\ find_pc = "idle"
    /\ find_result = NoResult

FindInit ==
    /\ find_base_dir \in Directories
    /\ find_subreddit \in {democrats, Capitalized(democrats), republican}
    /\ find_kind \in {submission, comment, Capitalized(submission)}
    /\ find_pc = "call"
    /\ find_result = NoResult

\* Lines 175-180: a candidate is returned.
FindReturns ==
    /\ find_pc = "call"
    /\ FindInputFile(find_base_dir, find_subreddit, find_kind).found
    /\ find_result' = FindInputFile(find_base_dir, find_subreddit, find_kind)
    /\ find_pc' = "returned"
    /\ UNCHANGED <<find_base_dir, find_subreddit, find_kind>>
    /\ UNCHANGED notFindVars

\* Lines 175-178: no candidate, FileNotFoundError.
FindRaises ==
    /\ find_pc = "call"
    /\ ~FindInputFile(find_base_dir, find_subreddit, find_kind).found
    /\ find_result' = NoResult
    /\ find_pc' = "raised"
    /\ UNCHANGED <<find_base_dir, find_subreddit, find_kind>>
    /\ UNCHANGED notFindVars

FindNext ==
    \/ FindReturns
    \/ FindRaises

(***************************************************************************)
(* main and process_subreddit.                                             *)
(*                                                                         *)
(* The run starts at line 247, after the arguments are parsed and base_dir *)
(* is known to exist.  process_subreddit runs process_file twice; the      *)
(* steps of process_file are the actions of FileNext.  Of the log only the *)
(* error of line 252 and the completion message of line 255 are kept.      *)
(***************************************************************************)
MaxSources == 2

\* What the submissions or the comments file of one source can be: a file
\* with a line cut short, a line before the window and two lines in it; a
\* file with a line normalize_record raises on; a file that does not open.
GoodFile == [lines |-> <<TruncatedLine, ObjectLine(EventInWindowA), ObjectLine(EventBeforeWindow), ObjectLine(EventInWindowB)>>, readable |-> TRUE]

RaisingFile == [lines |-> <<ObjectLine(EventInWindowA), ObjectLine(EventNumericPermalink)>>, readable |-> TRUE]

UnreadableFile == [lines |-> <<ObjectLine(EventInWindowA)>>, readable |-> FALSE]

\* A slot of the directory: no entry, or the entry of that name.
Slot(name) == {<<>>} \cup {<<[name |-> name, is_file |-> TRUE, file |-> f]>> : f \in {GoodFile, RaisingFile, UnreadableFile}}

BaseDirs ==
    {a \o b \o c \o d :
        a \in Slot(ZstName(democrats, submission, <<>>)), b \in Slot(ZstName(democrats, comment, <<>>)),
        c \in Slot(ZstName(republican, submission, <<>>)), d \in Slot(ZstName(republican, comment, <<>>))}

\* Line 209: f"{subreddit.lower()}_posts_{DATE_FROM.isoformat()}_{DATE_TO.isoformat()}.csv"
OutputName(sub) == StrLower(sub) \o <<"_posts_">> \o IsoFormat(DATE_FROM) \o <<"_">> \o IsoFormat(DATE_TO) \o <<".csv">>

\* A plausible bug: the comments are put in front of the submissions.
PrependRecords(recs, more) == more \o recs

\* Line 207: records.extend(...)
ExtendRecords(recs, more) == recs \o more

\* A plausible bug: the failure is logged and the loop goes on.
AfterFailureContinue(idx) == [pc |-> "loop", idx |-> idx + 1]

\* Line 253: `raise` leaves the loop and main.
AfterFailure(idx) == [pc |-> "failed", idx |-> idx]

NoEntry == [name |-> <<>>, is_file |-> FALSE, file |-> NoFile]

\* An output directory with no file.
NoFiles == [path \in {} |-> <<>>]

\* A plausible bug: the rows are appended to the file that is there.
WriteCsvAppend(dir, path, rows) ==
    [q \in DOMAIN dir \cup {path} |-> IF q # path THEN dir[q] ELSE IF path \in DOMAIN dir THEN dir[path] \o rows ELSE rows]

\* Lines 183-187: to_csv creates the file or replaces its content.
WriteCsv(dir, path, rows) == [q \in DOMAIN dir \cup {path} |-> IF q = path THEN rows ELSE dir[q]]

MainIdle ==
    /\ base_dir = <<>>
    /\ subreddits = <<>>
    /\ main_pc = "idle"
    /\ sub_idx = 0
    /\ submissions_file = NoEntry
    /\ comments_file = NoEntry
    /\ records = <<>>
    /\ outputs = <<>>
    /\ written = <<>>
    /\ output_dir = NoFiles
    /\ log = <<>>

MainInit ==
    /\ base_dir \in BaseDirs
    /\ subreddits \in SeqsUpTo({democrats, Capitalized(democrats), republican}, MaxSources) \ {<<>>}
    /\ main_pc = "loop"
    /\ sub_idx = 0
    /\ submissions_file = NoEntry
    /\ comments_file = NoEntry
    /\ records = <<>>
    /\ outputs = <<>>
    /\ written = <<>>
    /\ output_dir = NoFiles
    /\ log = <<>>

InLoop == main_pc = "loop" /\ sub_idx < Len(subreddits)

\* Lines 248-250, 196-197: one of the two find_input_file calls raises.
SubredditFindFails ==
    /\ InLoop
    /\ \/ ~FindInputFile(base_dir, subreddits[sub_idx + 1], submission).found
       \/ ~FindInputFile(base_dir, subreddits[sub_idx + 1], comment).found
    /\ main_pc' = "except"
    /\ UNCHANGED <<base_dir, subreddits, sub_idx, submissions_file, comments_file, records, outputs, written, output_dir, log>>
    /\ UNCHANGED fileVars
    /\ UNCHANGED notMainVars

\* Lines 248-250, 196-206: both files are found, list(process_file(...))
\* starts on the submissions.
SubredditStart ==
    /\ InLoop
    /\ FindInputFile(base_dir, subreddits[sub_idx + 1], submission).found
    /\ FindInputFile(base_dir, subreddits[sub_idx + 1], comment).found
    /\ submissions_file' = FindInputFile(base_dir, subreddits[sub_idx + 1], submission).entry
    /\ comments_file' = FindInputFile(base_dir, subreddits[sub_idx + 1], comment).entry
    /\ records' = <<>>
    /\ main_pc' = "submissions"
    /\ pf_file' = submissions_file'.file
    /\ pf_is_submission' = TRUE
    /\ pf_pc' = "start"
    /\ pf_idx' = 0
    /\ pf_out' = <<>>
    /\ UNCHANGED <<base_dir, subreddits, sub_idx, outputs, written, output_dir, log, open_handles>>
    /\ UNCHANGED notMainVars

\* Lines 206-207: the submissions are collected, process_file starts on the
\* comments.
SubredditComments ==
    /\ main_pc = "submissions"
    /\ pf_pc = "done"
    /\ records' = pf_out
    /\ main_pc' = "comments"
    /\ pf_file' = comments_file.file
    /\ pf_is_submission' = FALSE
    /\ pf_pc' = "start"
    /\ pf_idx' = 0
    /\ pf_out' = <<>>
    /\ UNCHANGED <<base_dir, subreddits, sub_idx, submissions_file, comments_file, outputs, written, output_dir, log, open_handles>>
    /\ UNCHANGED notMainVars

\* Lines 207-212, 250: the comments are appended, the CSV is written in the
\* order of `records`, its path is appended to outputs.
SubredditWrite ==
    /\ main_pc = "comments"
    /\ pf_pc = "done"
    /\ records' = ExtendRecords(records, pf_out)
    /\ written' = Append(written, [path |-> OutputName(subreddits[sub_idx + 1]), sub |-> subreddits[sub_idx + 1], rows |-> records'])
    /\ output_dir' = WriteCsv(output_dir, OutputName(subreddits[sub_idx + 1]), records')
    /\ outputs' = Append(outputs, OutputName(subreddits[sub_idx + 1]))
    /\ sub_idx' = sub_idx + 1
    /\ main_pc' = "loop"
    /\ pf_file' = NoFile
    /\ pf_is_submission' = FALSE
    /\ pf_pc' = "idle"
    /\ pf_idx' = 0
    /\ pf_out' = <<>>
    /\ UNCHANGED <<base_dir, subreddits, submissions_file, comments_file, log, open_handles>>
    /\ UNCHANGED notMainVars

\* Lines 206-207: process_file ends with an exception, which leaves
\* process_subreddit.
SubredditStreamRaises ==
    /\ main_pc \in {"submissions", "comments"}
    /\ pf_pc = "raised"
    /\ main_pc' = "except"
    /\ pf_file' = NoFile
    /\ pf_is_submission' = FALSE
    /\ pf_pc' = "idle"
    /\ pf_idx' = 0
    /\ pf_out' = <<>>
    /\ UNCHANGED <<base_dir, subreddits, sub_idx, submissions_file, comments_file, records, outputs, written, output_dir, log, open_handles>>
    /\ UNCHANGED notMainVars

\* Lines 251-253: the error is logged with the name of the source and
\* raised again.
MainExcept ==
    /\ main_pc = "except"
    /\ log' = Append(log, [level |-> "error", message |-> "Failed processing", sub |-> subreddits[sub_idx + 1]])
    /\ main_pc' = AfterFailure(sub_idx).pc
    /\ sub_idx' = AfterFailure(sub_idx).idx
    /\ UNCHANGED <<base_dir, subreddits, submissions_file, comments_file, records, outputs, written, output_dir>>
    /\ UNCHANGED fileVars
    /\ UNCHANGED notMainVars

\* Line 255: the loop is over, completion is logged.
MainCompleted ==
    /\ main_pc = "loop"
    /\ sub_idx = Len(subreddits)
    /\ log' = Append(log, [level |-> "info", message |-> "Completed", sub |-> <<>>])
    /\ main_pc' = "completed"
    /\ UNCHANGED <<base_dir, subreddits, sub_idx, submissions_file, comments_file, records, outputs, written, output_dir>>
    /\ UNCHANGED fileVars
    /\ UNCHANGED notMainVars

MainNext ==
    \/ SubredditFindFails
    \/ SubredditStart
    \/ SubredditComments
    \/ SubredditWrite
    \/ SubredditStreamRaises
    \/ MainExcept
    \/ MainCompleted
    \/ FileNext

(***************************************************************************)
(* save_merged_data (the JSON text of a list cell) and                     *)
(* parse_hashtags_column.                                                  *)
(*                                                                         *)
(* A string is a sequence of characters; "U+00E9" stands for the one       *)
(* character e-acute.  A Python value is a JSON value as above, a list is  *)
(* JList of the sequence of its items, float('nan') is JNaN.  PyStr is     *)
(* applied to strings and integers only.                                   *)
(***************************************************************************)
MaxTags == 2

JList(items) == [t |-> "list", n |-> 0, s |-> <<>>, items |-> items]

JNaN == [t |-> "nan", n |-> 0, s |-> <<>>]

\* json.dumps of one str (ensure_ascii=True): the quote and the backslash
\* get a backslash, a newline is \n, a character beyond ASCII is \uXXXX.
EscapeChar(ch) ==
    CASE ch = "\"" -> <<"\\", "\"">>
      [] ch = "\\" -> <<"\\", "\\">>
      [] ch = "\n" -> <<"\\", "n">>
      [] ch = "U+00E9" -> <<"\\", "u", "0", "0", "e", "9">>
      [] OTHER -> <<ch>>

RECURSIVE EscapeChars(_)
EscapeChars(cs) == IF cs = <<>> THEN <<>> ELSE EscapeChar(cs[1]) \o EscapeChars(Tail(cs))

\* A plausible bug: the characters are written as they are.
EncodeStringRaw(cs) == <<"\"">> \o cs \o <<"\"">>

EncodeString(cs) == <<"\"">> \o EscapeChars(cs) \o <<"\"">>

\* json.dumps of one item of a list: a str, None, or a list.
RECURSIVE EncodeItems(_)
EncodeValue(v) ==
    CASE v.t = "str" -> EncodeString(v.s)
      [] v.t = "list" -> <<"[">> \o EncodeItems(v.items) \o <<"]">>
      [] OTHER -> <<"n", "u", "l", "l">>

EncodeItems(items) ==
    IF items = <<>> THEN <<>>
    ELSE IF Len(items) = 1 THEN EncodeValue(items[1])
    ELSE EncodeValue(items[1]) \o <<",", " ">> \o EncodeItems(Tail(items))

\* Line 293: json.dumps(x) for a list x.
JsonDumps(items) == EncodeValue(JList(items))

JsonWhitespace == {" ", "\t", "\n", "\r"}

RECURSIVE SkipWhitespace(_, _)
SkipWhitespace(cs, i) == IF i <= Len(cs) /\ cs[i] \in JsonWhitespace THEN SkipWhitespace(cs, i + 1) ELSE i

JsonFail == [ok |-> FALSE, v |-> JNull, next |-> 0]

\* The JSON string that starts after the quote at i - 1; acc is what is
\* decoded so far.
RECURSIVE ScanString(_, _, _)
ScanString(cs, i, acc) ==
    IF i > Len(cs) THEN JsonFail
    ELSE IF cs[i] = "\"" THEN [ok |-> TRUE, v |-> JStr(acc), next |-> i + 1]
    ELSE IF cs[i] \in {"\n", "\t", "\r"} THEN JsonFail
    ELSE IF cs[i] # "\\" THEN ScanString(cs, i + 1, Append(acc, cs[i]))
    ELSE IF i + 1 > Len(cs) THEN JsonFail
    ELSE IF cs[i + 1] \in {"\"", "\\", "/"} THEN ScanString(cs, i + 2, Append(acc, cs[i + 1]))
    ELSE IF cs[i + 1] = "n" THEN ScanString(cs, i + 2, Append(acc, "\n"))
    ELSE IF cs[i + 1] = "u" /\ i + 5 <= Len(cs) /\ SubSeq(cs, i + 2, i + 5) = <<"0", "0", "e", "9">>
         THEN ScanString(cs, i + 6, Append(acc, "U+00E9"))
    ELSE JsonFail

\* The JSON value that starts at i: a string, null, or an array of values.
RECURSIVE ScanValue(_, _)
RECURSIVE ScanElements(_, _, _)
ScanValue(cs, i0) ==
    LET i == SkipWhitespace(cs, i0)
    IN  IF i > Len(cs) THEN JsonFail
        ELSE IF cs[i] = "\"" THEN ScanString(cs, i + 1, <<>>)
        ELSE IF cs[i] = "["
             THEN LET j == SkipWhitespace(cs, i + 1)
                  IN  IF j <= Len(cs) /\ cs[j] = "]"
                      THEN [ok |-> TRUE, v |-> JList(<<>>), next |-> j + 1]
                      ELSE ScanElements(cs, i + 1, <<>>)
        ELSE IF i + 3 <= Len(cs) /\ SubSeq(cs, i, i + 3) = <<"n", "u", "l", "l">>
             THEN [ok |-> TRUE, v |-> JNull, next |-> i + 4]
        ELSE JsonFail

ScanElements(cs, i, acc) ==
    LET r == ScanValue(cs, i)
        j == SkipWhitespace(cs, r.next)
    IN  IF ~r.ok \/ j > Len(cs) THEN JsonFail
        ELSE IF cs[j] = "," THEN ScanElements(cs, j + 1, Append(acc, r.v))
        ELSE IF cs[j] = "]" THEN [ok |-> TRUE, v |-> JList(Append(acc, r.v)), next |-> j + 1]
        ELSE JsonFail

\* Line 67: json.loads(hashtags_str); ok = FALSE is the JSONDecodeError.
JsonLoadsText(cs) ==
    LET r == ScanValue(cs, 1)
    IN  IF r.ok /\ SkipWhitespace(cs, r.next) > Len(cs) THEN [ok |-> TRUE, v |-> r.v] ELSE [ok |-> FALSE, v |-> JNull]

\* pd.isna of a scalar.
IsNaScalar(v) == v.t \in {"null", "nan"}

\* Line 50, `if pd.isna(hashtags_value)`: for a list pd.isna gives an array
\* with one boolean per item, and the truth value of an array is that of
\* its one item, an error for two items or more, and for no item False or
\* an error, depending on the NumPy release (empty_error).
IsNaTruth(v, empty_error) ==
    IF v.t # "list" THEN [raised |-> FALSE, truth |-> IsNaScalar(v)]
    ELSE IF Len(v.items) = 1 THEN [raised |-> FALSE, truth |-> IsNaScalar(v.items[1])]
    ELSE IF Len(v.items) = 0 THEN [raised |-> empty_error, truth |-> FALSE]
    ELSE [raised |-> TRUE, truth |-> FALSE]

Placeholders == {<<"n", "a", "n">>, <<"n", "o", "n", "e">>, <<>>}

\* Line 77: the tokens that are not empty, each with a leading '#'.
RECURSIVE MarkTokens(_)
MarkTokens(tokens) ==
    IF tokens = <<>> THEN <<>>
    ELSE IF tokens[1] = <<>> THEN MarkTokens(Tail(tokens))
    ELSE <<JStr(IF StartsWith(tokens[1], <<"#">>) THEN tokens[1] ELSE <<"#">> \o tokens[1])>> \o MarkTokens(Tail(tokens))

\* Line 75: [h.strip() for h in hashtags_str.split(',')]
CommaTokens(cs) == LET parts == SplitOn(cs, ",") IN [i \in 1..Len(parts) |-> StrStrip(parts[i])]

LooksLikeJsonArray(cs) == StartsWith(cs, <<"[">>) /\ cs[Len(cs)] = "]"

\* Lines 50-84: the branch the call takes and what it returns.
ParseHashtagsColumn(v, empty_error) ==
    LET na == IsNaTruth(v, empty_error)
        hashtags_str == StrStrip(PyStr(v))
    IN  IF na.raised THEN [branch |-> "isna_error", raised |-> TRUE, value |-> <<>>]
        ELSE IF na.truth THEN [branch |-> "null", raised |-> FALSE, value |-> <<>>]
        ELSE IF v.t = "list" THEN [branch |-> "list", raised |-> FALSE, value |-> v.items]
        ELSE IF hashtags_str = <<>> \/ StrLower(hashtags_str) \in Placeholders
             THEN [branch |-> "placeholder", raised |-> FALSE, value |-> <<>>]
        ELSE IF LooksLikeJsonArray(hashtags_str) /\ JsonLoadsText(hashtags_str).ok /\ JsonLoadsText(hashtags_str).v.t = "list"
             THEN [branch |-> "json", raised |-> FALSE, value |-> JsonLoadsText(hashtags_str).v.items]
        ELSE IF Contains(hashtags_str, <<",">>)
             THEN [branch |-> "comma", raised |-> FALSE, value |-> MarkTokens(CommaTokens(hashtags_str))]
        ELSE IF StartsWith(hashtags_str, <<"#">>)
             THEN [branch |-> "single", raised |-> FALSE, value |-> <<JStr(hashtags_str)>>]
        ELSE [branch |-> "else", raised |-> FALSE, value |-> <<>>]

\* The hashtag strings of the lists that are saved.
SavedStrings == {<<"#", "a">>,
     <<"#", "b">>,
     <<>>,
     <<"a", ",", "b">>,
     <<"\"">>,
     <<"\\">>,
     <<"U+00E9">>,
     <<"[">>,
     <<"]">>,
     <<" ", "#", "a", " ">>,
     <<"n", "a", "n">>,
     <<"#", "a", "\"", "]">>,
     <<"\n">>}

SavedLists == SeqsUpTo({JStr(cs) : cs \in SavedStrings}, MaxTags)

\* The texts parse_hashtags_column is called on directly.
ParsedTexts == {<<>>,
     <<" ", " ">>,
     <<"n", "a", "n">>,
     <<"N", "a", "N">>,
     <<"N", "o", "n", "e">>,
     <<" ", "n", "o", "n", "e", " ">>,
     <<"[", "\"", "#", "a", "\"", ",", " ", "\"", "#", "b", "\"", "]">>,
     <<" ", "[", "\"", "#", "a", "\"", "]", " ">>,
     <<"[", "]">>,
     <<"[", "\"", "n", "a", "n", "\"", ",", " ", "\"", "\"", "]">>,
     <<"[", "n", "u", "l", "l", "]">>,
     <<"[", "\"", "a", "\\", "\"", "b", "\"", ",", " ", "\"", "\\", "u", "0", "0", "e", "9", "\"", "]">>,
     <<"[", "[", "\"", "#", "a", "\"", "]", ",", " ", "\"", "#", "b", "\"", "]">>,
     <<"[", "#", "a", ",", " ", "b", "]">>,
     <<"[", "a", "]">>,
     <<"[", "\"", "#", "a", "\"">>,
     <<"#", "a", ",", "b", ",", " ", ",", "#", "c">>,
     <<"n", "a", "n", ",", "#", "a">>,
     <<",">>,
     <<"a", ",", " ", "n", "o", "n", "e">>,
     <<"#", "a">>,
     <<" ", "#", "a", " ">>,
     <<"a">>,
     <<"#", "a", " ", "b">>}

HashtagValues ==
    {JNaN, JNull, JInt(5), JList(<<>>), JList(<<JNull>>), JList(<<JStr(<<"#", "a">>)>>),
     JList(<<JStr(<<"#", "a">>), JStr(<<"#", "b">>)>>)}
    \cup {JStr(cs) : cs \in ParsedTexts}

NoTags == [kind |-> "pending", value |-> <<>>]

TagIdle ==
    /\ saved_list = JNull
    /\ hashtags_value = JNull
    /\ empty_is_error = FALSE
    /\ tag_pc = "idle"
    /\ tag_result = NoTags

TagInit ==
    /\ empty_is_error \in BOOLEAN
    /\ tag_result = NoTags
    /\ \/ /\ saved_list \in {JList(h) : h \in SavedLists}
          /\ hashtags_value = JNull
          /\ tag_pc = "save"
       \/ /\ saved_list = JNull
          /\ hashtags_value \in HashtagValues
          /\ tag_pc = "parse"

\* Lines 292-294: the list of the cell becomes its JSON text, which is what
\* the loader's parser is given when the file is read back.
SaveCell ==
    /\ tag_pc = "save"
    /\ hashtags_value' = JStr(JsonDumps(saved_list.items))
    /\ tag_pc' = "parse"
    /\ UNCHANGED <<saved_list, empty_is_error, tag_result>>
    /\ UNCHANGED notTagVars

ParseTakes(branch) == tag_pc = "parse" /\ ParseHashtagsColumn(hashtags_value, empty_is_error).branch = branch

ParseReturn ==
    /\ tag_result' = [kind |-> "return", value |-> ParseHashtagsColumn(hashtags_value, empty_is_error).value]
    /\ tag_pc' = "done"
    /\ UNCHANGED <<saved_list, hashtags_value, empty_is_error>>
    /\ UNCHANGED notTagVars

\* Line 50: the truth value of pd.isna(hashtags_value) raises ValueError.
ParseIsNaRaises ==
    /\ ParseTakes("isna_error")
    /\ tag_result' = [kind |-> "raise", value |-> <<>>]
    /\ tag_pc' = "raised"
    /\ UNCHANGED <<saved_list, hashtags_value, empty_is_error>>
    /\ UNCHANGED notTagVars

\* Lines 50-51.
ParseNull == ParseTakes("null") /\ ParseReturn

\* Lines 54-55.
ParseList == ParseTakes("list") /\ ParseReturn

\* Lines 58-61.
ParsePlaceholder == ParseTakes("placeholder") /\ ParseReturn

\* Lines 64-69.
ParseJsonArray == ParseTakes("json") /\ ParseReturn

\* Lines 74-78.
ParseCommaSeparated == ParseTakes("comma") /\ ParseReturn

\* Lines 81-82.
ParseSingle == ParseTakes("single") /\ ParseReturn

\* Line 84.
ParseNothing == ParseTakes("else") /\ ParseReturn

TagNext ==
    \/ SaveCell
    \/ ParseIsNaRaises
    \/ ParseNull
    \/ ParseList
    \/ ParsePlaceholder
    \/ ParseJsonArray
    \/ ParseCommaSeparated
    \/ ParseSingle
    \/ ParseNothing

(***************************************************************************)
(* load_twitter_data (data_prep.py): where the hashtags column of a loaded *)
(* file comes from.  The DataFrame that read_csv returned is the input;    *)
(* its cells are strings, NaN for an empty field, or numbers.              *)
(***************************************************************************)
MaxLoadRows == 2

\* A plausible bug: the candidate names tried from the last to the first.
hashtag_columns_reversed == <<"tags", "hashtag", "hashtags">>

\* Line 149.
hashtag_columns == <<"hashtags", "hashtag", "tags">>

\* The characters of the texts that are \w for the pattern of line 32.
WordChars == {"a", "b", "c", "g", "h", "m", "t", "w", "x", "1", "5", "_", "U+00E9"}

\* The length of the run of word characters that starts at position i.
RECURSIVE WordRun(_, _)
WordRun(cs, i) == IF i > Len(cs) \/ cs[i] \notin WordChars THEN 0 ELSE 1 + WordRun(cs, i + 1)

\* re.findall(r'#\w+', cs) from position i on: the matches from left to
\* right, each as long as it can be, none overlapping another.
RECURSIVE FindAllHashtags(_, _)
FindAllHashtags(cs, i) ==
    IF i > Len(cs) THEN <<>>
    ELSE IF cs[i] = "#" /\ WordRun(cs, i + 1) > 0
         THEN <<JStr(SubSeq(cs, i, i + WordRun(cs, i + 1)))>> \o FindAllHashtags(cs, i + 1 + WordRun(cs, i + 1))
         ELSE FindAllHashtags(cs, i + 1)

\* extract_hashtags, lines 12-32.
ExtractHashtags(text) == IF IsNaScalar(text) THEN <<>> ELSE FindAllHashtags(PyStr(text), 1)

\* The cells a column of the file can hold; each column has contents of its
\* own, so that the column a value came from can be told from the value.
LoadCellValues(col) ==
    CASE col = "hashtags" -> {JStr(<<"[", "\"", "#", "h", "\"", "]">>), JNaN}
      [] col = "hashtag" -> {JStr(<<"#", "g", ",", "x">>)}
      [] col = "tags" -> {JStr(<<"#", "t">>)}
      [] col = "text" -> {JStr(<<"#", "a", " ", "#", "b">>), JStr(<<" ", " ">>), JNaN}
      [] col = "tweet" -> {JStr(<<"x", " ", "#", "w">>)}
      [] col = "content" -> {JStr(<<"#", "#", "c", "_", "1", "!">>)}
      [] col = "message" -> {JStr(<<"m", "#">>)}
      [] OTHER -> {JInt(1)}

\* The headers of the files: any two of the hashtag names at most, any two
\* of the text names at most, and an id.
LoadSchemas ==
    {H \cup T \cup {"id"} : H \in {S \in SUBSET {"hashtags", "hashtag", "tags"} : Cardinality(S) <= 2},
                            T \in {S \in SUBSET {"text", "tweet", "content", "message"} : Cardinality(S) <= 2}}

LoadCellRows(cols) ==
    {f \in [cols -> UNION {LoadCellValues(c) : c \in cols}] : \A c \in cols : f[c] \in LoadCellValues(c)}

LoadFrames == UNION {{MakeFrame(cols, cr) : cr \in SeqsUpTo(LoadCellRows(cols), MaxLoadRows)} : cols \in LoadSchemas}

biden == <<"b", "i", "d", "e", "n">>

NoFrame == [columns |-> {}, rows |-> <<>>]

LoadIdle ==
    /\ load_file = NoFrame
    /\ load_label = None
    /\ load_pc = "idle"
    /\ load_text_col = None
    /\ existing_hashtag_col = None
    /\ load_df = NoFrame

\* Lines 108-125: df is what read_csv returned.
LoadInit ==
    /\ load_file \in LoadFrames
    /\ load_label \in {None, biden}
    /\ load_pc = "find_columns"
    /\ load_text_col = None
    /\ existing_hashtag_col = None
    /\ load_df = load_file

\* Lines 140-154: the first candidate name of each list that is a column.
LoadFindColumns ==
    /\ load_pc = "find_columns"
    /\ load_text_col' = FirstPresent(text_columns, load_df.columns)
    /\ existing_hashtag_col' = FirstPresent(hashtag_columns, load_df.columns)
    /\ load_pc' = "hashtags"
    /\ UNCHANGED <<load_file, load_label, load_df>>
    /\ UNCHANGED notLoadVars

\* Lines 156-160: df['hashtags'] = df[existing_hashtag_col].apply(parse_hashtags_column).
\* No cell of a file is a list, so the NumPy release makes no difference.
LoadParseExisting ==
    /\ load_pc = "hashtags"
    /\ existing_hashtag_col # None
    /\ load_df' = AssignColumn(load_df, "hashtags",
                      [i \in 1..Len(load_df.rows) |->
                          JList(ParseHashtagsColumn(load_df.rows[i].cells[existing_hashtag_col], FALSE).value)])
    /\ load_pc' = "rows"
    /\ UNCHANGED <<load_file, load_label, load_text_col, existing_hashtag_col>>
    /\ UNCHANGED notLoadVars

\* Lines 161-165: df['hashtags'] = df[text_col].apply(extract_hashtags).
LoadExtractFromText ==
    /\ load_pc = "hashtags"
    /\ existing_hashtag_col = None
    /\ load_text_col # None
    /\ load_df' = AssignColumn(load_df, "hashtags",
                      [i \in 1..Len(load_df.rows) |-> JList(ExtractHashtags(load_df.rows[i].cells[load_text_col]))])
    /\ load_pc' = "rows"
    /\ UNCHANGED <<load_file, load_label, load_text_col, existing_hashtag_col>>
    /\ UNCHANGED notLoadVars

\* Lines 166-168: df['hashtags'] = [[]] * len(df).
LoadEmptyLists ==
    /\ load_pc = "hashtags"
    /\ existing_hashtag_col = None
    /\ load_text_col = None
    /\ load_df' = AssignColumn(load_df, "hashtags", [i \in 1..Len(load_df.rows) |-> JList(<<>>)])
    /\ load_pc' = "rows"
    /\ UNCHANGED <<load_file, load_label, load_text_col, existing_hashtag_col>>
    /\ UNCHANGED notLoadVars

\* Lines 171-175: the rows whose text is missing or blank are dropped.
LoadDropMissingText ==
    /\ load_pc = "rows"
    /\ load_text_col # None
    /\ load_df' = [load_df EXCEPT !.rows =
                      KeepRows(load_df.rows,
                               {i \in 1..Len(load_df.rows) :
                                   /\ ~IsNaScalar(load_df.rows[i].cells[load_text_col])
                                   /\ StrStrip(PyStr(load_df.rows[i].cells[load_text_col])) # <<>>})]
    /\ load_pc' = "label"
    /\ UNCHANGED <<load_file, load_label, load_text_col, existing_hashtag_col>>
    /\ UNCHANGED notLoadVars

\* Line 171, `if text_col:` not taken.
LoadKeepRows ==
    /\ load_pc = "rows"
    /\ load_text_col = None
    /\ load_pc' = "label"
    /\ UNCHANGED <<load_file, load_label, load_text_col, existing_hashtag_col, load_df>>
    /\ UNCHANGED notLoadVars

\* Lines 178-181.
LoadReturn ==
    /\ load_pc = "label"
    /\ load_df' = IF load_label # None
                  THEN AssignColumn(load_df, "label", [i \in 1..Len(load_df.rows) |-> JStr(load_label)])
                  ELSE load_df
    /\ load_pc' = "done"
    /\ UNCHANGED <<load_file, load_label, load_text_col, existing_hashtag_col>>
    /\ UNCHANGED notLoadVars

LoadNext ==
    \/ LoadFindColumns
    \/ LoadParseExisting
    \/ LoadExtractFromText
    \/ LoadEmptyLists
    \/ LoadDropMissingText
    \/ LoadKeepRows
    \/ LoadReturn

(***************************************************************************)
(* DataPreparator.clean_text (data_preparation/prepare_data.py), one       *)
(* re.sub or string call per step.  Text is a sequence of characters.      *)
(***************************************************************************)
MaxText == 4

\* The characters of the texts that are \w, and those that are \s.
CleanWordChars == WordChars \cup {"A", "R", "T", "e", "k", "p", "r", "s", "u"}

SpaceChars == {" ", "\t", "\n", "\r"}

\* The length of the longest run of characters of the class at position i.
RECURSIVE RunOf(_, _, _)
RunOf(cs, i, class) == IF i > Len(cs) \/ cs[i] \notin class THEN 0 ELSE 1 + RunOf(cs, i + 1, class)

RECURSIVE RunOfNot(_, _, _)
RunOfNot(cs, i, class) == IF i > Len(cs) \/ cs[i] \in class THEN 0 ELSE 1 + RunOfNot(cs, i + 1, class)

StartsAt(cs, i, prefix) == i + Len(prefix) - 1 <= Len(cs) /\ SubSeq(cs, i, i + Len(prefix) - 1) = prefix

\* The length of the match of r'http\S+|www.\S+' at position i, 0 for none.
UrlMatch(cs, i) ==
    IF StartsAt(cs, i, <<"h", "t", "t", "p">>) /\ RunOfNot(cs, i + 4, SpaceChars) > 0
    THEN 4 + RunOfNot(cs, i + 4, SpaceChars)
    ELSE IF StartsAt(cs, i, <<"w", "w", "w">>) /\ i + 3 <= Len(cs) /\ cs[i + 3] # "\n"
            /\ RunOfNot(cs, i + 4, SpaceChars) > 0
    THEN 4 + RunOfNot(cs, i + 4, SpaceChars)
    ELSE 0

\* Line 74: re.sub(r'http\S+|www.\S+', '', text)
RECURSIVE RemoveUrls(_, _)
RemoveUrls(cs, i) ==
    IF i > Len(cs) THEN <<>>
    ELSE IF UrlMatch(cs, i) > 0 THEN RemoveUrls(cs, i + UrlMatch(cs, i))
    ELSE <<cs[i]>> \o RemoveUrls(cs, i + 1)

\* Line 77: re.sub(r'@\w+', '', text)
RECURSIVE RemoveMentions(_, _)
RemoveMentions(cs, i) ==
    IF i > Len(cs) THEN <<>>
    ELSE IF cs[i] = "@" /\ RunOf(cs, i + 1, CleanWordChars) > 0
         THEN RemoveMentions(cs, i + 1 + RunOf(cs, i + 1, CleanWordChars))
    ELSE <<cs[i]>> \o RemoveMentions(cs, i + 1)

\* Line 80: re.sub(r'^RT\s+', '', text)
RemoveRT(cs) ==
    IF StartsAt(cs, 1, <<"R", "T">>) /\ RunOf(cs, 3, SpaceChars) > 0
    THEN SubSeq(cs, 3 + RunOf(cs, 3, SpaceChars), Len(cs))
    ELSE cs

\* Line 83: re.sub(r'#(\w+)', r'\1', text)
RECURSIVE RemoveHashSymbols(_, _)
RemoveHashSymbols(cs, i) ==
    IF i > Len(cs) THEN <<>>
    ELSE IF cs[i] = "#" /\ RunOf(cs, i + 1, CleanWordChars) > 0
         THEN SubSeq(cs, i + 1, i + RunOf(cs, i + 1, CleanWordChars))
                 \o RemoveHashSymbols(cs, i + 1 + RunOf(cs, i + 1, CleanWordChars))
    ELSE <<cs[i]>> \o RemoveHashSymbols(cs, i + 1)

\* Line 86: ' '.join(text.split())
RECURSIVE JoinSplit(_, _)
JoinSplit(cs, i) ==
    IF i > Len(cs) THEN <<>>
    ELSE IF cs[i] \in SpaceChars THEN JoinSplit(cs, i + 1)
    ELSE LET n == RunOfNot(cs, i, SpaceChars)
             rest == JoinSplit(cs, i + n)
         IN  SubSeq(cs, i, i + n - 1) \o (IF rest = <<>> THEN <<>> ELSE <<" ">> \o rest)

\* The texts: every text of up to MaxText characters over a mention sign, a
\* hashtag sign, a letter and a blank, and some tweets.
CleanTexts ==
    SeqsUpTo({"@", "#", "a", " "}, MaxText)
      \cup {<<"R", "T", " ", "@", "u", "s", "e", "r", ":", " ", "C", "h", "e", "c", "k", " ", "#", "a", "m", " ",
              "h", "t", "t", "p", "s", ":", "/", "/", "e", "x", ".", "c">>,
            <<"R", "T", "\t", " ", "A">>,
            <<"a", " ", "R", "T", " ", "b">>,
            <<"R", "T", "@", "a">>,
            <<"@", "h", "t", "t", "p", ":", "/", "/", "x", " ", "a">>,
            <<"@", "w", "w", "w", ".", "x", " ", "a">>,
            <<"w", "w", "w", " ", "a", "@", "b">>,
            <<"h", "t", "t", "p">>,
            <<"h", "t", "t", "p", " ", "@", "a">>,
            <<"m", "e", "@", "x", ".", "c">>,
            <<"@", "_", "1", " ", "\n", " ", "B">>,
            <<"@", "U+00E9", "a">>}

CleanIdle ==
    /\ raw_text = JNull
    /\ cleaned = <<>>
    /\ clean_pc = "idle"

CleanInit ==
    /\ raw_text \in {JNull, JNaN} \cup {JStr(t) : t \in CleanTexts}
    /\ cleaned = <<>>
    /\ clean_pc = "call"

\* Lines 67-68: None or NaN, "" is returned.
CleanMissing ==
    /\ clean_pc = "call"
    /\ IsNaScalar(raw_text)
    /\ cleaned' = <<>>
    /\ clean_pc' = "done"
    /\ UNCHANGED raw_text
    /\ UNCHANGED notCleanVars

\* Lines 71-74: str(text), the URLs are removed.
CleanUrls ==
    /\ clean_pc = "call"
    /\ ~IsNaScalar(raw_text)
    /\ cleaned' = RemoveUrls(PyStr(raw_text), 1)
    /\ clean_pc' = "mentions"
    /\ UNCHANGED raw_text
    /\ UNCHANGED notCleanVars

\* Line 77.
CleanMentions ==
    /\ clean_pc = "mentions"
    /\ cleaned' = RemoveMentions(cleaned, 1)
    /\ clean_pc' = "rt"
    /\ UNCHANGED raw_text
    /\ UNCHANGED notCleanVars

\* Line 80.
CleanRT ==
    /\ clean_pc = "rt"
    /\ cleaned' = RemoveRT(cleaned)
    /\ clean_pc' = "hashtags"
    /\ UNCHANGED raw_text
    /\ UNCHANGED notCleanVars

\* Line 83.
CleanHashSymbols ==
    /\ clean_pc = "hashtags"
    /\ cleaned' = RemoveHashSymbols(cleaned, 1)
    /\ clean_pc' = "whitespace"
    /\ UNCHANGED raw_text
    /\ UNCHANGED notCleanVars

\* Lines 86-92: the whitespace is collapsed, the text lower-cased, trimmed
\* and returned.
CleanReturn ==
    /\ clean_pc = "whitespace"
    /\ cleaned' = StrStrip(StrLower(JoinSplit(cleaned, 1)))
    /\ clean_pc' = "done"
    /\ UNCHANGED raw_text
    /\ UNCHANGED notCleanVars

CleanNext ==
    \/ CleanMissing
    \/ CleanUrls
    \/ CleanMentions
    \/ CleanRT
    \/ CleanHashSymbols
    \/ CleanReturn

(***************************************************************************)
(* The specifications.                                                     *)
(***************************************************************************)
InitStream == StreamInit /\ MergeIdle /\ NormIdle /\ FileIdle /\ FindIdle /\ MainIdle /\ TagIdle /\ LoadIdle /\ CleanIdle

SpecStream == InitStream /\ [][StreamNext]_vars

InitMerge == StreamIdle /\ MergeInit /\ NormIdle /\ FileIdle /\ FindIdle /\ MainIdle /\ TagIdle /\ LoadIdle /\ CleanIdle

SpecMerge == InitMerge /\ [][MergeNext]_vars

InitNormalize == StreamIdle /\ MergeIdle /\ NormInit /\ FileIdle /\ FindIdle /\ MainIdle /\ TagIdle /\ LoadIdle /\ CleanIdle

SpecNormalize == InitNormalize /\ [][NormNext]_vars

InitFile == StreamIdle /\ MergeIdle /\ NormIdle /\ FileInit /\ FindIdle /\ MainIdle /\ TagIdle /\ LoadIdle /\ CleanIdle

SpecFile == InitFile /\ [][FileNext]_vars

InitFind == StreamIdle /\ MergeIdle /\ NormIdle /\ FileIdle /\ FindInit /\ MainIdle /\ TagIdle /\ LoadIdle /\ CleanIdle

SpecFind == InitFind /\ [][FindNext]_vars

InitMain == StreamIdle /\ MergeIdle /\ NormIdle /\ FileIdle /\ FindIdle /\ MainInit /\ TagIdle /\ LoadIdle /\ CleanIdle

SpecMain == InitMain /\ [][MainNext]_vars

InitHashtags == StreamIdle /\ MergeIdle /\ NormIdle /\ FileIdle /\ FindIdle /\ MainIdle /\ TagInit /\ LoadIdle /\ CleanIdle

SpecHashtags == InitHashtags /\ [][TagNext]_vars

InitLoad == StreamIdle /\ MergeIdle /\ NormIdle /\ FileIdle /\ FindIdle /\ MainIdle /\ TagIdle /\ LoadInit /\ CleanIdle

SpecLoad == InitLoad /\ [][LoadNext]_vars

InitClean == StreamIdle /\ MergeIdle /\ NormIdle /\ FileIdle /\ FindIdle /\ MainIdle /\ TagIdle /\ LoadIdle /\ CleanInit

SpecClean == InitClean /\ [][CleanNext]_vars


(***************************************************************************)
(* Properties of stream_zst_ndjson.                                        *)
(***************************************************************************)
RECURSIVE NonEmptyStripped(_)
NonEmptyStripped(ls) ==
    IF ls = <<>> THEN <<>>
    ELSE LET l == StripCodePoints(Head(ls))
         IN  (IF l # <<>> THEN <<l>> ELSE <<>>) \o NonEmptyStripped(Tail(ls))

\* The reference: the whole content decoded at once, split on newlines,
\* each line stripped, the non-empty ones kept.
WholeContentLines(bytes) == NonEmptyStripped(SplitOn(Utf8DecodeReplace(bytes), NEWLINE))

\* C1: in compressed mode, whatever the content and the chunk size, the
\* lines yielded by the time the generator is exhausted are the lines of
\* the whole content decoded at once.
C1_ChunkingPreservesLines == (spc = "closed" /\ compressed) => yielded = WholeContentLines(content)

\* The same statement for content in which every character is one byte:
\* there a chunk boundary cannot fall inside a character.
AsciiChunkingPreservesLines ==
    (spc = "closed" /\ compressed /\ \A i \in 1..Len(content) : content[i] < 128) => yielded = WholeContentLines(content)

\* Plain mode splits the bytes on b"\n" before it decodes.
PlainModePreservesLines == (spc = "closed" /\ ~compressed) => yielded = WholeContentLines(content)

(***************************************************************************)
(* Properties of merge_and_deduplicate.  They are stated on the inputs     *)
(* biden_df and trump_df: a position i of the concatenation is the row     *)
(* labelled i-1.                                                           *)
(***************************************************************************)
NumBiden == Len(biden_df.rows)

NumConcat == Len(biden_df.rows) + Len(trump_df.rows)

\* The input row at position i of the concatenation, and its cell in a
\* column (missing when its DataFrame has no such column).
InputRow(i) == IF i <= NumBiden THEN biden_df.rows[i] ELSE trump_df.rows[i - NumBiden]

CellAt(i, col) == IF col \in DOMAIN InputRow(i).cells THEN InputRow(i).cells[col] ELSE NaN

\* The key of position i as the concatenation holds it: a key column that
\* one input lacks is a float64 column in the concatenation.
KeyAt(i) == Concat(biden_df, trump_df).rows[i].cells[id_col]

\* "Equal after lower-casing and trimming" compares CaseFoldTrim of the
\* texts (a missing text compares as pandas prints it).
CaseFoldTrim(v) == StrStrip(StrLower(AsTypeStr(v)))

FoldAt(i) == CaseFoldTrim(CellAt(i, text_col))

Labels(df) == {df.rows[k].label : k \in 1..Len(df.rows)}

LabelsOf(positions) == {i - 1 : i \in positions}

Returned == mpc \in {"report", "done"}

\* Positions whose key no earlier position carries.
FirstOfKey == {i \in 1..NumConcat : \A j \in 1..(i-1) : KeyAt(j) # KeyAt(i)}

\* The positions the text stage reads.
TextStageInput == IF id_col # None THEN FirstOfKey ELSE 1..NumConcat

\* Among the given positions, those whose folded text no earlier one carries.
FirstOfTextIn(S) == {i \in S : \A j \in S : j < i => FoldAt(j) # FoldAt(i)}

FirstOfText == FirstOfTextIn(TextStageInput)

\* C2: with a key column and a text column, no two rows of the output share
\* a key value, and no two have texts equal after lower-casing and trimming.
C2_NoDuplicateEntries ==
    (Returned /\ id_col # None /\ text_col # None) =>
        \A p, q \in 1..Len(merged_df.rows) : p < q =>
            /\ merged_df.rows[p].cells[id_col] # merged_df.rows[q].cells[id_col]
            /\ CaseFoldTrim(merged_df.rows[p].cells[text_col]) # CaseFoldTrim(merged_df.rows[q].cells[text_col])

C2_Witness ==
    /\ mpc = "done" /\ id_col # None /\ text_col # None
    /\ duplicates_removed - text_duplicates >= 1
    /\ text_duplicates >= 1
    /\ Len(merged_df.rows) >= 2

C4_TextStageAfterIdStage ==
    (Returned /\ id_col # None /\ text_col # None) =>
        LET survivors == FirstOfKey
            out == Labels(merged_df)
        IN  \A i \in survivors :
                (\A j \in survivors : j < i => FoldAt(j) # FoldAt(i)) => (i - 1) \in out

C4_Witness ==
    /\ mpc = "done" /\ id_col # None /\ text_col # None
    /\ LET survivors == FirstOfKey
       IN  \E r \in (1..NumConcat) \ survivors : \E i \in survivors :
              /\ r < i /\ FoldAt(r) = FoldAt(i) /\ KeyAt(r) # KeyAt(i)
              /\ \A j \in survivors : j < i => FoldAt(j) # FoldAt(i)
              /\ (i - 1) \in Labels(merged_df)

\* The scenario of C5: both inputs carry the key and the text column, every
\* row has a key, the keys are unique within each input and the folded
\* texts within biden_df are distinct.
KeysOf(df) == {df.rows[i].cells[id_col] : i \in 1..Len(df.rows)}

C5_Scenario ==
    /\ id_col # None /\ text_col # None
    /\ {id_col, text_col} \subseteq biden_df.columns
    /\ {id_col, text_col} \subseteq trump_df.columns
    /\ NaN \notin KeysOf(biden_df) \cup KeysOf(trump_df)
    /\ Cardinality(KeysOf(biden_df)) = Len(biden_df.rows)
    /\ Cardinality(KeysOf(trump_df)) = Len(trump_df.rows)
    /\ \A i, j \in 1..NumBiden : i < j => FoldAt(i) # FoldAt(j)

\* k: the keys the inputs share.
C5_SharedKeys == Cardinality(KeysOf(biden_df) \cap KeysOf(trump_df))

\* t: the rows of trump_df with a new key whose text is a case/whitespace
\* variant of the text of an earlier row that is not a shared-key row.
C5_NewKeyRows == LET shared == KeysOf(biden_df) IN {j \in (NumBiden+1)..NumConcat : KeyAt(j) \notin shared}

C5_TextVariants ==
    LET candidates == (1..NumBiden) \cup C5_NewKeyRows
    IN  Cardinality({j \in candidates : j > NumBiden /\ \E i \in candidates : i < j /\ FoldAt(i) = FoldAt(j)})

\* C5: in that scenario the output has n + m - k - t rows.
C5_MergedRowCount ==
    (Returned /\ C5_Scenario) =>
        Len(merged_df.rows) = Len(biden_df.rows) + Len(trump_df.rows) - C5_SharedKeys - C5_TextVariants

C5_Witness ==
    /\ mpc = "done" /\ C5_Scenario
    /\ C5_SharedKeys >= 1 /\ C5_TextVariants >= 1
    /\ Len(merged_df.rows) >= 1

\* Rows each stage removes, counted on the inputs.
Stage1Removed == IF id_col # None THEN NumConcat - Cardinality(FirstOfKey) ELSE 0

Stage2Removed == IF text_col # None THEN Cardinality(TextStageInput) - Cardinality(FirstOfText) ELSE 0

\* C6: in every branch the reported total is the removals of the identity
\* stage plus those of the text stage, and is the size of the concatenation
\* minus the size of the output.
C6_ReportedTotal ==
    /\ Returned => duplicates_removed = Stage1Removed + Stage2Removed
    /\ Returned => duplicates_removed = NumConcat - Len(merged_df.rows)
    /\ mpc = "id_done" => duplicates_removed = Stage1Removed

C6_Witness ==
    /\ mpc = "done" /\ id_col # None /\ text_col # None
    /\ Stage1Removed >= 1 /\ Stage2Removed >= 1
    /\ duplicates_removed = 2

\* C7: without a key column the text stage alone runs, on the whole
\* concatenation; without a key and without a text column the concatenation
\* is returned as it is, nothing is removed, and the call returns.
C7_NoKeyColumn ==
    /\ (Returned /\ id_col = None /\ text_col # None) =>
          /\ Labels(merged_df) = LabelsOf({i \in 1..NumConcat : \A j \in 1..(i-1) : FoldAt(j) # FoldAt(i)})
          /\ merged_df.columns = biden_df.columns \cup trump_df.columns
    /\ (Returned /\ id_col = None /\ text_col = None) =>
          /\ merged_df = Concat(biden_df, trump_df)
          /\ duplicates_removed = 0
    /\ (mpc = "merged" /\ id_col = None /\ text_col = None) => ENABLED MergeNoDedup

C7_Witness ==
    /\ mpc = "done" /\ id_col = None /\ text_col # None
    /\ Len(merged_df.rows) < NumConcat
    /\ Len(merged_df.rows) >= 2

C7_WitnessNeither ==
    /\ mpc = "done" /\ id_col = None /\ text_col = None
    /\ Len(merged_df.rows) = NumConcat
    /\ NumConcat >= 2

(***************************************************************************)
(* Properties of normalize_record.                                         *)
(***************************************************************************)
Finished == npc \in {"done", "raised"}

\* The days since 1970-01-01 of DATE_FROM (2020-10-15) and DATE_TO
\* (2020-11-08).
WindowFirstDay == 18550

WindowLastDay == 18574

\* created_utc read as an integer Unix epoch: a JSON integer, or a string
\* holding a decimal integer.
EpochOf(v) ==
    CASE v.t = "int" -> [ok |-> TRUE, n |-> v.n]
      [] v.t = "str" -> PyInt(v.s)
      [] OTHER -> [ok |-> FALSE, n |-> 0]

\* created_utc is present, is an integer epoch, and its UTC day lies in the
\* window, both end dates included.
ValidInWindow ==
    /\ obj.kind = "dict"
    /\ "created_utc" \in DOMAIN obj.fields
    /\ EpochOf(obj.fields["created_utc"]).ok
    /\ (EpochOf(obj.fields["created_utc"]).n \div 86400) \in WindowFirstDay..WindowLastDay

\* C8: normalize_record returns a record if and only if created_utc is
\* present, is an integer epoch and its UTC date lies in [DATE_FROM, DATE_TO];
\* otherwise it returns None without raising.
C8_RecordIffInWindow ==
    Finished => ((npc = "done" /\ result.kind = "record") <=> ValidInWindow)

\* What the code does do: the date filter decides whether the call gets past
\* line 103, and a record that is returned carries a date of the window.
DateWindowDecides ==
    Finished => ((npc = "raised" \/ result.kind = "record") <=> ValidInWindow)

EmittedDateInWindow ==
    (npc = "done" /\ result.kind = "record") =>
        /\ ValidInWindow
        /\ result.record.date = IsoFormat(CivilFromDays(EpochOf(obj.fields["created_utc"]).n \div 86400))
        /\ ~DateLt(created, <<2020, 10, 15>>) /\ ~DateLt(<<2020, 11, 8>>, created)

BoundaryDatesKept ==
    /\ npc = "done" /\ result.kind = "record"
    /\ result.record.date \in {<<"2", "0", "2", "0", "-", "1", "0", "-", "1", "5">>, <<"2", "0", "2", "0", "-", "1", "1", "-", "0", "8">>}

\* An absolute URL starts with a scheme (here http or https, in either
\* letter case) and "://".
UrlSchemes == {<<"http">>, <<"http", "s">>, <<"HTTP">>, <<"HTTPS">>}

IsAbsoluteUrl(s) == \E scheme \in UrlSchemes : StartsWith(s, scheme \o <<"://">>)

HasStringPermalink ==
    /\ obj.kind = "dict"
    /\ "permalink" \in DOMAIN obj.fields
    /\ obj.fields["permalink"].t = "str"
    /\ obj.fields["permalink"].s # <<>>

\* C9: when the raw event carries a non-empty permalink, the emitted url is
\* the permalink itself if it is an absolute URL, and the fixed domain
\* followed by the permalink otherwise.
C9_ExplicitPermalinkUsed ==
    (npc = "done" /\ result.kind = "record" /\ HasStringPermalink) =>
        LET permalink == obj.fields["permalink"].s
        IN  result.record.url = IF IsAbsoluteUrl(permalink) THEN permalink ELSE REDDIT \o permalink

\* What the code does do: the permalink itself if it starts with "http".
PermalinkUsedByHttpPrefix ==
    (npc = "done" /\ result.kind = "record" /\ HasStringPermalink) =>
        LET permalink == obj.fields["permalink"].s
        IN  result.record.url = IF permalink[1] = "http" THEN permalink ELSE REDDIT \o permalink

\* link_id without its leading type prefix.
WithoutLeadingPrefix(s) == IF s # <<>> /\ s[1] = "t3_" THEN Tail(s) ELSE s

\* C10: for a comment in the window without a permalink that has link_id, id
\* and subreddit, the url is https://www.reddit.com/r/{subreddit}/comments/{L}/_/{id}
\* with L the link_id less its leading t3_ only.
C10_SynthesizedCommentUrl ==
    (/\ npc = "done" /\ result.kind = "record" /\ ~is_submission
     /\ "permalink" \notin DOMAIN obj.fields
     /\ {"link_id", "id", "subreddit"} \subseteq DOMAIN obj.fields) =>
        result.record.url = REDDIT \o <<"/r/">> \o PyStr(obj.fields["subreddit"]) \o <<"/comments/">>
                            \o WithoutLeadingPrefix(PyStr(obj.fields["link_id"])) \o <<"/_/">> \o PyStr(obj.fields["id"])

\* The same for a link_id that holds t3_ at its start only, or not at all.
SynthesizedCommentUrlPlainLinkId ==
    (/\ npc = "done" /\ result.kind = "record" /\ ~is_submission
     /\ "permalink" \notin DOMAIN obj.fields
     /\ {"link_id", "id", "subreddit"} \subseteq DOMAIN obj.fields
     /\ \A i \in 2..Len(obj.fields["link_id"].s) : obj.fields["link_id"].s[i] # "t3_") =>
        result.record.url = REDDIT \o <<"/r/">> \o PyStr(obj.fields["subreddit"]) \o <<"/comments/">>
                            \o WithoutLeadingPrefix(PyStr(obj.fields["link_id"])) \o <<"/_/">> \o PyStr(obj.fields["id"])

(***************************************************************************)
(* Properties of process_file.                                             *)
(***************************************************************************)
\* A line is well formed and in the window: it is a JSON object whose
\* created_utc is an integer epoch of a day in [DATE_FROM, DATE_TO].
WellFormedInWindow(line) ==
    /\ line.head = "{" /\ line.tail = "}"
    /\ "created_utc" \in DOMAIN line.fields
    /\ EpochOf(line.fields["created_utc"]).ok
    /\ (EpochOf(line.fields["created_utc"]).n \div 86400) \in WindowFirstDay..WindowLastDay

\* The ids of the well-formed in-window lines, in input order.
RECURSIVE IdsInWindow(_)
IdsInWindow(ls) ==
    IF ls = <<>> THEN <<>>
    ELSE IF WellFormedInWindow(ls[1]) THEN <<ls[1].fields["id"]>> \o IdsInWindow(Tail(ls))
    ELSE IdsInWindow(Tail(ls))

IdsOf(recs) == [i \in 1..Len(recs) |-> recs[i].id]

FileEnded == pf_pc \in {"done", "raised"}

\* C11: whatever the stream of lines, when process_file ends it has yielded
\* exactly the records of the well-formed in-window lines, in input order;
\* a line that fails to parse gives no record and does not stop the stream.
C11_YieldsInWindowLines ==
    (FileEnded /\ pf_file.readable) => IdsOf(pf_out) = IdsInWindow(pf_file.lines)

\* What the code does do: a line that fails json.loads, or that
\* normalize_record answers with None, never ends the generator; it ends
\* early only on the exception of normalize_record (line 119), and up to
\* that line it has yielded what the claim says.
LinesConsumed == SubSeq(pf_file.lines, 1, pf_idx)

YieldedSoFar ==
    pf_pc # "idle" => IdsOf(pf_out) = IdsInWindow(LinesConsumed)

StopsOnlyOnRaise ==
    (pf_pc = "raised" /\ pf_file.readable) =>
        /\ pf_idx < Len(pf_file.lines)
        /\ WellFormedInWindow(pf_file.lines[pf_idx + 1])
        /\ pf_file.lines[pf_idx + 1].fields["permalink"].t # "str"

MalformedThenEmitted ==
    /\ pf_pc = "done"
    /\ \E i, j \in 1..Len(pf_file.lines) :
        /\ i < j
        /\ ~JsonLoads(pf_file.lines[i]).ok
        /\ WellFormedInWindow(pf_file.lines[j])
    /\ pf_out # <<>>

(***************************************************************************)
(* Properties of find_input_file.                                          *)
(***************************************************************************)
\* The entries the matching rule selects: regular files whose name contains
\* the source name and the kind token, letter case ignored on all three.
Matching ==
    {k \in 1..Len(find_base_dir) :
        /\ find_base_dir[k].is_file
        /\ Contains(StrLower(find_base_dir[k].name), StrLower(find_subreddit))
        /\ Contains(StrLower(find_base_dir[k].name), StrLower(find_kind))}

ReturnsShortestOf(S) ==
    /\ find_pc = "returned"
    /\ \E k \in S : find_base_dir[k] = find_result.entry
    /\ \A k \in S : Len(find_base_dir[k].name) >= Len(find_result.entry.name)

\* C13: when some file of the directory matches, find_input_file returns one
\* of the matching files, and no matching file has a strictly shorter name.
C13_ShortestMatchReturned ==
    (find_pc # "call" /\ Matching # {}) => ReturnsShortestOf(Matching)

\* What the code does do: the same for a kind token given in lower case, and
\* a FileNotFoundError exactly when nothing matches the token as given.
ShortestMatchLowerKind ==
    (find_pc # "call" /\ find_kind = StrLower(find_kind)) =>
        IF Matching # {} THEN ReturnsShortestOf(Matching) ELSE find_pc = "raised"

KindTakenAsGiven ==
    (find_pc = "raised" /\ Matching # {}) => find_kind # StrLower(find_kind)

UpperCaseNameReturned ==
    /\ find_pc = "returned"
    /\ Cardinality(Matching) >= 2
    /\ find_result.entry.name # StrLower(find_result.entry.name)

(***************************************************************************)
(* Properties of main and process_subreddit.  They are stated on the       *)
(* inputs base_dir and subreddits.                                         *)
(***************************************************************************)
\* The files of one source, looked up by their names in base_dir.
HasFile(sub, kind) == \E k \in 1..Len(base_dir) : base_dir[k].name = ZstName(StrLower(sub), kind, <<>>)

FileOf(sub, kind) == base_dir[CHOOSE k \in 1..Len(base_dir) : base_dir[k].name = ZstName(StrLower(sub), kind, <<>>)].file

NumSubmissions(rows) == Cardinality({i \in 1..Len(rows) : rows[i].type = "submission"})

\* C12: in every CSV that process_subreddit writes, the submission records
\* come first and the comment records after them, and the records of each
\* kind are those of the in-window lines of that kind's file, in file order.
C12_SubmissionsThenComments ==
    \A k \in 1..Len(written) :
        LET rows == written[k].rows
            n == NumSubmissions(rows)
        IN  /\ \A i \in 1..Len(rows) : rows[i].type = (IF i <= n THEN "submission" ELSE "comment")
            /\ IdsOf(SubSeq(rows, 1, n)) = IdsInWindow(FileOf(written[k].sub, submission).lines)
            /\ IdsOf(SubSeq(rows, n + 1, Len(rows))) = IdsInWindow(FileOf(written[k].sub, comment).lines)

\* A CSV with two submissions and two comments has been written.
C12_Witness ==
    \E k \in 1..Len(written) :
        /\ NumSubmissions(written[k].rows) = 2
        /\ Len(written[k].rows) = 4
        /\ written[k].rows[1].id # written[k].rows[2].id

\* Streaming a file fails: it does not open, or normalize_record raises on
\* one of its lines.
StreamingFails(f, sub) ==
    \/ ~f.readable
    \/ \E i \in 1..Len(f.lines) : JsonLoads(f.lines[i]).ok /\ NormalizeRecord(JsonLoads(f.lines[i]).obj, sub).kind = "raise"

\* Locating or streaming the files of a source fails.
SourceFails(sub) ==
    \/ ~HasFile(sub, submission)
    \/ ~HasFile(sub, comment)
    \/ StreamingFails(FileOf(sub, submission), TRUE)
    \/ StreamingFails(FileOf(sub, comment), FALSE)

Failing == {k \in 1..Len(subreddits) : SourceFails(subreddits[k])}

FirstFailing == CHOOSE k \in Failing : \A j \in Failing : k <= j

FailureLogged == log = <<[level |-> "error", message |-> "Failed processing", sub |-> subreddits[FirstFailing]]>>

\* C14: when a source of the list fails, no source after it is processed
\* and completion is never reported; the exception is logged under the name
\* of the failing source and leaves main, and nothing runs after that.
C14_FailureEndsRun ==
    /\ [](Failing # {} =>
            /\ main_pc # "completed"
            /\ sub_idx < FirstFailing
            /\ Len(written) < FirstFailing
            /\ \A i \in 1..Len(log) : log[i].message # "Completed"
            /\ main_pc \in {"except", "failed"} => sub_idx + 1 = FirstFailing
            /\ main_pc = "failed" => FailureLogged)
    /\ [][main_pc = "except" =>
            /\ main_pc' = "failed"
            /\ log' = Append(log, [level |-> "error", message |-> "Failed processing", sub |-> subreddits[sub_idx + 1]])]_vars
    /\ [][main_pc # "failed"]_vars

\* A run over two sources has failed on the first of them.
C14_Witness ==
    /\ main_pc = "failed"
    /\ Len(subreddits) = 2
    /\ Failing = {1}
    /\ FailureLogged

\* A run has failed on a source whose comments file does not stream.
C14_WitnessStreaming ==
    /\ main_pc = "failed"
    /\ HasFile(subreddits[sub_idx + 1], submission)
    /\ HasFile(subreddits[sub_idx + 1], comment)
    /\ written # <<>>

RunEnded == main_pc \in {"failed", "completed"}

NoMatch(sub) == ~HasFile(sub, submission) \/ ~HasFile(sub, comment)

WrittenFor(sub) == \E k \in 1..Len(written) : written[k].sub = sub

\* C15: when find_input_file matches no file for one source, the run still
\* produces the output of every other source of the list that does not fail
\* itself.
C15_SiblingsStillProduced ==
    (RunEnded /\ \E k \in 1..Len(subreddits) : NoMatch(subreddits[k])) =>
        \A j \in 1..Len(subreddits) : ~SourceFails(subreddits[j]) => WrittenFor(subreddits[j])

\* What the code does do: the siblings before the failing source have their
\* outputs, the siblings after it have none.
OnlyEarlierSiblingsProduced ==
    (RunEnded /\ Failing # {}) =>
        /\ \A j \in 1..(FirstFailing - 1) : WrittenFor(subreddits[j])
        /\ Len(written) = FirstFailing - 1

(***************************************************************************)
(* Properties of stream_zst_ndjson on a source that is not seekable.       *)
(***************************************************************************)
\* C16: on a source that is not seekable the call itself reports the error:
\* once the call is over the error is there, and the consumer has not asked
\* for a line.
C16_ErrorAtCall ==
    (spc # "idle" /\ ~seekable) => (spc = "raised" /\ ~started)

\* What the code does do: the call returns a generator and no error, and
\* the error comes with the first line the consumer asks for.
ErrorAtFirstPull ==
    (spc # "idle" /\ ~seekable) =>
        \/ spc = "open" /\ ~started
        \/ spc = "raised" /\ started /\ yielded = <<>>

ErrorDeferred == spc = "raised" /\ started

(***************************************************************************)
(* Properties of save_merged_data and parse_hashtags_column.               *)
(***************************************************************************)
TagEnded == tag_pc \in {"done", "raised"}

\* C17: a list of hashtag strings that is written as its JSON text and
\* parsed back by parse_hashtags_column comes back as the same list, same
\* items in the same order; the empty list too.
C17_HashtagRoundTrip ==
    (TagEnded /\ saved_list.t = "list") => tag_result = [kind |-> "return", value |-> saved_list.items]

\* A list of two different strings, one of them with a double quote in it,
\* has made the round trip.
C17_Witness ==
    /\ tag_pc = "done"
    /\ saved_list.t = "list"
    /\ Len(saved_list.items) = 2
    /\ saved_list.items[1] # saved_list.items[2]
    /\ \E k \in 1..Len(saved_list.items[2].s) : saved_list.items[2].s[k] = "\""
    /\ tag_result.value = saved_list.items

C17_WitnessEmpty ==
    /\ tag_pc = "done"
    /\ saved_list = JList(<<>>)
    /\ tag_result.value = <<>>

\* The strategies in their order: a list as it is; a text in brackets that
\* parses as a JSON array; the marked tokens of a text with a comma; the one
\* token that starts with '#'; the empty list for everything else.
ByStrategy(v) ==
    IF v.t = "list" THEN v.items
    ELSE IF v.t \in {"null", "nan"} THEN <<>>
    ELSE LET text == StrStrip(PyStr(v))
         IN  IF text = <<>> THEN <<>>
             ELSE IF LooksLikeJsonArray(text) /\ JsonLoadsText(text).ok THEN JsonLoadsText(text).v.items
             ELSE IF \E k \in 1..Len(text) : text[k] = "," THEN MarkTokens(CommaTokens(text))
             ELSE IF text[1] = "#" THEN <<JStr(text)>>
             ELSE <<>>

\* C18: parse_hashtags_column returns what the first strategy that applies
\* gives; in particular a list of any length is returned unchanged.
C18_StrategiesInOrder ==
    TagEnded => tag_result = [kind |-> "return", value |-> ByStrategy(hashtags_value)]

\* What the code does do: the same for every value that is not a list, and
\* for a list of one item that is not null.
StrategiesOnScalars ==
    (TagEnded /\ hashtags_value.t # "list") => tag_result = [kind |-> "return", value |-> ByStrategy(hashtags_value)]

ListOfOneReturned ==
    (TagEnded /\ hashtags_value.t = "list" /\ Len(hashtags_value.items) = 1 /\ ~IsNaScalar(hashtags_value.items[1])) =>
        tag_result = [kind |-> "return", value |-> hashtags_value.items]

ListRaises ==
    /\ tag_pc = "raised"
    /\ hashtags_value.t = "list"
    /\ Len(hashtags_value.items) = 2

\* A null or placeholder-like value: None, NaN, or a text that is nan or
\* none in any letter case, empty, or whitespace only.
PlaceholderLike(v) ==
    \/ v.t \in {"null", "nan"}
    \/ v.t = "str" /\ StrLower(StrStrip(v.s)) \in Placeholders

\* The same behind the marker the comma branch puts in front of a token.
MarkedPlaceholder(v) ==
    v.t = "str" /\ v.s # <<>> /\ v.s[1] = "#" /\ PlaceholderLike(JStr(Tail(v.s)))

\* C19: a placeholder-like value gives the empty list, and the list parsed
\* from a text (JSON-array or comma-separated) holds no placeholder-like
\* item.
C19_PlaceholdersNormalized ==
    tag_pc = "done" =>
        /\ PlaceholderLike(hashtags_value) => tag_result.value = <<>>
        /\ hashtags_value.t = "str" =>
            \A k \in 1..Len(tag_result.value) :
                ~PlaceholderLike(tag_result.value[k]) /\ ~MarkedPlaceholder(tag_result.value[k])

\* What the code does do: a placeholder-like value as a whole gives the
\* empty list, and the comma branch drops the tokens that are empty after
\* trimming; nan and none as tokens, and every item of a JSON array, stay.
WholePlaceholderEmpty ==
    (tag_pc = "done" /\ PlaceholderLike(hashtags_value)) => tag_result.value = <<>>

EmptyTokensDropped ==
    (tag_pc = "done" /\ ParseHashtagsColumn(hashtags_value, empty_is_error).branch = "comma") =>
        \A k \in 1..Len(tag_result.value) : tag_result.value[k].s \notin {<<>>, <<"#">>}

(***************************************************************************)
(* load_twitter_data: the source of the hashtags column.                   *)
(***************************************************************************)
\* The row of the file that a row of the returned DataFrame was read from.
FileRow(r) == load_file.rows[r.label + 1]

\* The list that the stated precedence gives a row of the file.
HashtagsBySource(cells, cols) ==
    IF "hashtags" \in cols THEN ParseHashtagsColumn(cells["hashtags"], FALSE).value
    ELSE IF "hashtag" \in cols THEN ParseHashtagsColumn(cells["hashtag"], FALSE).value
    ELSE IF "tags" \in cols THEN ParseHashtagsColumn(cells["tags"], FALSE).value
    ELSE IF "text" \in cols THEN ExtractHashtags(cells["text"])
    ELSE IF "tweet" \in cols THEN ExtractHashtags(cells["tweet"])
    ELSE IF "content" \in cols THEN ExtractHashtags(cells["content"])
    ELSE IF "message" \in cols THEN ExtractHashtags(cells["message"])
    ELSE <<>>

NoSource == load_file.columns \cap {"hashtags", "hashtag", "tags", "text", "tweet", "content", "message"} = {}

\* C20: every row that load_twitter_data returns has in its hashtags column
\* the list that one source gives it: the first column among hashtags,
\* hashtag, tags that the file has, parsed; if the file has none of them,
\* the hashtags extracted from the first column among text, tweet, content,
\* message that it has; if it has none of these either, the empty list, and
\* then the call returns every row of the file.
C20_HashtagsFromOneSource ==
    load_pc = "done" =>
        /\ "hashtags" \in load_df.columns
        /\ \A i \in 1..Len(load_df.rows) :
              load_df.rows[i].cells["hashtags"] =
                  JList(HashtagsBySource(FileRow(load_df.rows[i]).cells, load_file.columns))
        /\ NoSource => Len(load_df.rows) = Len(load_file.rows)

\* A file with the columns hashtag, tags and text is loaded and its rows take
\* their hashtags from the column hashtag.
C20_Witness ==
    /\ load_pc = "done"
    /\ {"hashtag", "tags", "text"} \subseteq load_file.columns
    /\ "hashtags" \notin load_file.columns
    /\ Len(load_df.rows) = MaxLoadRows
    /\ \A i \in 1..Len(load_df.rows) : load_df.rows[i].cells["hashtags"] = JList(<<JStr(<<"#", "g">>), JStr(<<"#", "x">>)>>)

\* A file with text columns only: the hashtags are those of the first one.
C20_WitnessText ==
    /\ load_pc = "done"
    /\ load_file.columns = {"id", "tweet", "message"}
    /\ Len(load_df.rows) > 0
    /\ \A i \in 1..Len(load_df.rows) : load_df.rows[i].cells["hashtags"] = JList(<<JStr(<<"#", "w">>)>>)

\* A file with no source at all is loaded, every row with an empty list.
C20_WitnessNoSource ==
    /\ load_pc = "done"
    /\ NoSource
    /\ Len(load_df.rows) = MaxLoadRows
    /\ \A i \in 1..Len(load_df.rows) : load_df.rows[i].cells["hashtags"] = JList(<<>>)

\* The call always runs to its return: no position of it is a failure.
LoadNeverFails == load_pc \in {"idle", "find_columns", "hashtags", "rows", "label", "done"}

(***************************************************************************)
(* Properties of the output files of a run of main.                        *)
(***************************************************************************)
PathsWritten == {written[k].path : k \in 1..Len(written)}

\* C21: the path process_subreddit writes is fixed by the lower-cased name
\* of the source (the window is a constant of the module), and a second run
\* on the same source and the same input files leaves one file under that
\* path whose rows are those that the first run alone wrote: the file is
\* replaced, no row is added to it.
C21_RerunOverwrites ==
    /\ \A i, j \in 1..Len(written) :
          (StrLower(written[i].sub) = StrLower(written[j].sub)) <=> (written[i].path = written[j].path)
    /\ DOMAIN output_dir = PathsWritten
    /\ \A i, j \in 1..Len(written) :
          (i < j /\ j = Len(written) /\ written[i].sub = written[j].sub) =>
              output_dir[written[j].path] = written[i].rows

\* The same source has been processed twice, each time with four rows, and
\* the directory holds one file.
C21_Witness ==
    /\ Len(written) = 2
    /\ written[1].sub = written[2].sub
    /\ Len(written[1].rows) = 4
    /\ Cardinality(DOMAIN output_dir) = 1

\* C29: two entries of the source list that differ never write the same
\* output path.
C29_DistinctOutputPaths ==
    \A i, j \in 1..Len(written) :
        written[i].sub # written[j].sub => written[i].path # written[j].path

\* What the code does do: a run over two names that differ in case only
\* completes with one file, the second output in the place of the first.
CaseVariantsShareOutput ==
    (main_pc = "completed" /\ Len(subreddits) = 2 /\ subreddits[1] # subreddits[2]
        /\ StrLower(subreddits[1]) = StrLower(subreddits[2])) =>
            /\ Cardinality(DOMAIN output_dir) = 1
            /\ outputs[1] = outputs[2]

CaseVariantsCompleted ==
    /\ main_pc = "completed"
    /\ subreddits = <<democrats, Capitalized(democrats)>>
    /\ Cardinality(DOMAIN output_dir) = 1

(***************************************************************************)
(* Properties of the input file handles of a run of main.                  *)
(***************************************************************************)
\* C25: at most one input file handle is open at any time; while a source
\* is being read the open handle is that of the file being read, so the
\* submissions file is closed when the comments file is open; and the
\* files of a source are located and opened only when the output of every
\* source before it has been written.
C25_OneHandleAtATime ==
    /\ Cardinality(open_handles) <= 1
    /\ \A h \in open_handles : h.source = sub_idx
    /\ main_pc \in {"submissions", "comments"} =>
          /\ \A h \in open_handles : h.is_submission = (main_pc = "submissions")
          /\ Len(written) = sub_idx
          /\ DOMAIN output_dir = PathsWritten

\* The comments file of the second source is open, the output of the first
\* source is written.
C25_Witness ==
    /\ main_pc = "comments"
    /\ open_handles = {[source |-> 1, is_submission |-> FALSE]}
    /\ Len(written) = 1
    /\ pf_idx > 0

(***************************************************************************)
(* process_file and the content of the lines.                              *)
(***************************************************************************)
\* C27: on a file that opens, process_file never ends with an exception,
\* whatever its lines hold.
C27_NeverRaisesOnContent == pf_file.readable => pf_pc # "raised"

\* What the code does do: lines that are no JSON, lines that are no object
\* and objects outside the window never raise.
OtherLinesNeverRaise ==
    (pf_pc = "raised" /\ pf_file.readable) =>
        /\ JsonLoads(pf_file.lines[pf_idx + 1]).ok
        /\ JsonLoads(pf_file.lines[pf_idx + 1]).obj.kind = "dict"
        /\ WellFormedInWindow(pf_file.lines[pf_idx + 1])

(***************************************************************************)
(* find_input_file and the order of the directory listing.                 *)
(***************************************************************************)
EntriesOf(dir) == {dir[i] : i \in 1..Len(dir)}

\* The listings of the same files in another order.
Relistings(dir) == {d \in Directories : Len(d) = Len(dir) /\ EntriesOf(d) = EntriesOf(dir)}

\* C28: the path find_input_file returns is the one it returns for every
\* other order in which the directory can list the same entries.
C28_ListingOrderIrrelevant ==
    find_pc = "returned" =>
        \A d \in Relistings(find_base_dir) : FindInputFile(d, find_subreddit, find_kind) = find_result

ShortestMatches(dir, sub, kind) ==
    {e \in EntriesOf(Candidates(dir, sub, kind)) :
        \A o \in EntriesOf(Candidates(dir, sub, kind)) : Len(e.name) <= Len(o.name)}

\* What the code does do: with one shortest match the order is irrelevant,
\* with several the one listed first is returned.
ListingOrderDecidesTies ==
    find_pc = "returned" =>
        /\ find_result.entry \in ShortestMatches(find_base_dir, find_subreddit, find_kind)
        /\ Cardinality(ShortestMatches(find_base_dir, find_subreddit, find_kind)) = 1 =>
              \A d \in Relistings(find_base_dir) : FindInputFile(d, find_subreddit, find_kind) = find_result
        /\ \A i \in 1..Len(find_base_dir) :
              find_base_dir[i] = find_result.entry =>
                  \A j \in 1..(i - 1) : find_base_dir[j] \notin ShortestMatches(find_base_dir, find_subreddit, find_kind)

TieReturned ==
    /\ find_pc = "returned"
    /\ Cardinality(ShortestMatches(find_base_dir, find_subreddit, find_kind)) = 2

(***************************************************************************)
(* merge_and_deduplicate: what it does to the rows it keeps, and which     *)
(* rows the identity stage removes.                                        *)
(***************************************************************************)
IsNumber(v) == Len(v) = 3 /\ v[1] \in {"int64", "float64"}

\* The same cell value: the same number, or the same text.
SameValue(v, w) == IF IsNumber(v) /\ IsNumber(w) THEN v[2] = w[2] /\ v[3] = w[3] ELSE v = w

\* C22: the output has the columns of the concatenation, its rows are rows
\* of biden_df followed by rows of trump_df in their input order, and every
\* row has in each column of its input DataFrame the value it had there.
C22_OnlyRowsRemoved ==
    Returned =>
        /\ merged_df.columns = biden_df.columns \cup trump_df.columns
        /\ \A p \in 1..Len(merged_df.rows) : merged_df.rows[p].label \in 0..(NumConcat - 1)
        /\ \A p, q \in 1..Len(merged_df.rows) : p < q => merged_df.rows[p].label < merged_df.rows[q].label
        /\ \A p \in 1..Len(merged_df.rows) :
              LET r == merged_df.rows[p]
                  source == InputRow(r.label + 1)
              IN  \A c \in DOMAIN source.cells : SameValue(r.cells[c], source.cells[c])

\* What the code does do: the rows are rows of the concatenation, in order,
\* with no helper column; a cell differs from the input only where the
\* concatenation converted an integer key to float64.
RowsOfConcatenationKept ==
    Returned =>
        /\ merged_df.columns = biden_df.columns \cup trump_df.columns
        /\ \A p, q \in 1..Len(merged_df.rows) : p < q => merged_df.rows[p].label < merged_df.rows[q].label
        /\ \A p \in 1..Len(merged_df.rows) :
              LET r == merged_df.rows[p]
                  source == InputRow(r.label + 1)
              IN  /\ r = Concat(biden_df, trump_df).rows[r.label + 1]
                  /\ \A c \in DOMAIN source.cells :
                        ~SameValue(r.cells[c], source.cells[c]) =>
                            IsInt64(source.cells[c]) /\ r.cells[c] = ToFloat64(source.cells[c])

KeyChangedByConcat ==
    /\ mpc = "done"
    /\ \E p \in 1..Len(merged_df.rows) :
          /\ "id" \in DOMAIN InputRow(merged_df.rows[p].label + 1).cells
          /\ InputRow(merged_df.rows[p].label + 1).cells["id"] = Int64(2^30, 1)
          /\ merged_df.rows[p].cells["id"] = Float64(2^30, 0)

\* The states in which merged_df is what the identity stage left.
AfterIdStage == mpc = "id_done" \/ (Returned /\ id_col # None /\ text_col = None)

\* C26: a row that the identity stage removed has a key, and an earlier row
\* has the same key; so the rows without a key all stay, those of a
\* DataFrame without the key column among them.
C26_MissingKeysKept ==
    AfterIdStage =>
        \A i \in 1..NumConcat :
            (i - 1) \notin Labels(merged_df) =>
                /\ CellAt(i, id_col) # NaN
                /\ \E j \in 1..(i - 1) : CellAt(j, id_col) = CellAt(i, id_col)

\* What the code does do: the rows without a key count as rows of one key,
\* and only the first of them is kept.
MissingKeysCollapse ==
    AfterIdStage =>
        Cardinality({i \in 1..NumConcat : CellAt(i, id_col) = NaN /\ (i - 1) \in Labels(merged_df)}) <= 1

MissingKeyRowRemoved ==
    /\ AfterIdStage
    /\ \E i \in 1..NumConcat : CellAt(i, id_col) = NaN /\ (i - 1) \notin Labels(merged_df)

(***************************************************************************)
(* Properties of DataPreparator.clean_text.                                *)
(***************************************************************************)
\* A mention: '@' with a word character right after it.
HasMention(cs) == \E i \in 1..(Len(cs) - 1) : cs[i] = "@" /\ cs[i + 1] \in CleanWordChars

\* C23: the text that clean_text returns holds no mention, and it is empty
\* when the argument is None or the empty string.
C23_NoMentionInResult ==
    clean_pc = "done" =>
        /\ ~HasMention(cleaned)
        /\ raw_text \in {JNull, JStr(<<>>)} => cleaned = <<>>

\* What the code does do: no mention is left right after line 77; a mention
\* in the result is a '@' whose hashtag sign line 83 took away.  The empty
\* results are as stated.
MentionsRemovedAtTheirStep ==
    /\ clean_pc \in {"rt", "hashtags"} => ~HasMention(cleaned)
    /\ (clean_pc = "done" /\ HasMention(cleaned)) => Contains(raw_text.s, <<"@", "#">>)
    /\ (clean_pc = "done" /\ raw_text \in {JNull, JNaN, JStr(<<>>)}) => cleaned = <<>>

\* The tweet of the repository's test is cleaned as the test expects.
TestTweetCleaned ==
    /\ clean_pc = "done"
    /\ Len(raw_text.s) > 30
    /\ cleaned = <<":", " ", "c", "h", "e", "c", "k", " ", "a", "m">>

MentionLeft ==
    /\ clean_pc = "done"
    /\ raw_text = JStr(<<"@", "#", "a">>)
    /\ cleaned = <<"@", "a">>

(***************************************************************************)
(* stream_zst_ndjson and the pulls of its consumer.                        *)
(***************************************************************************)
\* The `for` over the complete lines of the chunks read so far is over:
\* each of them was yielded, or was blank and skipped.
CompleteLinesDone == lines = <<>> \/ line_idx = Len(lines)

\* C24: the source is read only inside a next() of the consumer, and in
\* compressed mode only when the complete lines of the chunks read before
\* are done; once the consumer has stopped asking, the source is never read
\* again and no line is produced.
C24_PullDriven ==
    /\ [][pos' # pos => (pulling /\ ~stopped /\ CompleteLinesDone)]_vars
    /\ [][yielded' # yielded => (pulling /\ ~pulling')]_vars
    /\ [][(stopped \/ ~pulling) => (pos' = pos /\ yielded' = yielded /\ (stopped => stopped'))]_vars

\* A second chunk has been read, after a line of the first was yielded.
C24_Witness ==
    /\ compressed
    /\ spc = "emit"
    /\ pulling
    /\ pos > chunk_size
    /\ yielded # <<>>

\* The consumer has stopped with a part of the source unread.
C24_WitnessStopped ==
    /\ stopped
    /\ yielded # <<>>
    /\ pos < Len(content)

=============================================================================
